---- MODULE Spec2Model ----
(***************************************************************************)
(* A model of the Caldera Bridge theme generator (src/src/code.ts): the    *)
(* Figma variable store (collections Base, Theme, Bridge), the message     *)
(* handler figma.ui.onmessage and the three collection builders.           *)
(*                                                                         *)
(* A variable name is the tuple of its slash-separated segments:          *)
(* "Colors/Primary/5" is <<"Colors", "Primary", "5">>.  A hex colour that   *)
(* the colour library computes is kept symbolically (HexTone, HexHueChroma,*)
(* HexHsl);       a hex the user typed is the string itself (HexLit).      *)
(***************************************************************************)
EXTENDS Integers, Sequences, FiniteSets, Bags, TLC

(***************************************************************************)
(* Bounds of the model.                                                    *)
(***************************************************************************)
\* generate-theme messages delivered in one behaviour
MaxRuns == 2

VARIABLES
    colls,      \* figma.variables.getLocalVariableCollections(), in creation order
    vars,       \* every variable of the document; a variable's id is its index
    fuse,       \* store writes accepted before the store rejects one (-1: never)
    available,  \* the fonts figma.loadFontAsync can load
    runs,       \* one record per generate-theme handler invocation
    posted,     \* the bag of figma.ui.postMessage calls
    notes,      \* the bag of figma.notify calls
    held,       \* the id of Theme Background/Main a consumer took after the first
                \* successful generation (0 before)
    snap,       \* the store as the latest successful generation left it
    cancelled   \* a cancel message has been delivered to figma.ui.onmessage

store == <<colls, vars, fuse>>
allVars == <<colls, vars, fuse, available, runs, posted, notes, held, snap, cancelled>>

(***************************************************************************)
(* Values a variable holds in a mode.                                      *)
(***************************************************************************)
\* a hex string as typed by the user or written in the code
HexLit(s) == [kind |-> "lit", str |-> s]
\* hexFromArgb(TonalPalette.fromHct(Hct.fromInt(argbFromHex(seed))).tone(t))
HexTone(seed, t) == [kind |-> "tone", of |-> seed, tone |-> t]
\* hexFromArgb(TonalPalette.fromHueAndChroma(h, c).tone(t))
HexHueChroma(h, c, t) == [kind |-> "huechroma", hue |-> h, chroma |-> c, tone |-> t]
\* rgbToHex(hslToRgb(hsl.h, sat, hsl.l)) for hsl = hexToHsl(primary)
HexHsl(primary, sat) == [kind |-> "hsl", primary |-> primary, sat |-> sat]

\* RGB (no alpha field) or RGBA; alpha is kept in percent
RGB(hex) == [type |-> "RGB", hex |-> hex]
RGBA(hex, pct) == [type |-> "RGBA", hex |-> hex, a |-> pct]
Float(n) == [type |-> "FLOAT", num |-> n]
Str(s) == [type |-> "STRING", str |-> s]
Bool(b) == [type |-> "BOOLEAN", bool |-> b]
Alias(id) == [type |-> "VARIABLE_ALIAS", id |-> id]
\* the value the host gives a variable at creation, before any setValueForMode
DefaultValue(t) == [type |-> "DEFAULT", of |-> t]

IsAlias(v) == v.type = "VARIABLE_ALIAS"

(***************************************************************************)
(* The host's variable store (figma.variables).  A builder's synchronous   *)
(* segment threads a record S = [colls, vars, fuse, err, n] through its    *)
(* store calls; once err is set (an exception is in flight) every later    *)
(* call of the segment is skipped.  n counts the writes the store took.    *)
(***************************************************************************)
Ok(S) == S.err = ""

Throw(S, e) == IF Ok(S) THEN [S EXCEPT !.err = e] ELSE S

\* the store takes one write, or rejects it when the fuse has run out
Accept(S) ==
    IF S.fuse = 0 THEN [S EXCEPT !.err = "CollectionWriteFailure", !.fuse = -1]
    ELSE IF S.fuse > 0 THEN [S EXCEPT !.fuse = @ - 1, !.n = @ + 1]
    ELSE [S EXCEPT !.n = @ + 1]

MinOf(set) == CHOOSE i \in set : \A j \in set : i <= j

\* getLocalVariableCollections().find(c => c.name === name): 0 when undefined
FindCollection(S, name) ==
    LET hits == {i \in 1..Len(S.colls) : S.colls[i].name = name}
    IN  IF hits = {} THEN 0 ELSE MinOf(hits)

\* collection.variableIds.map(getVariableById).find(v => v && v.name === path)
FindVariable(S, c, path) ==
    LET ids == S.colls[c].variableIds
        hits == {k \in 1..Len(ids) : S.vars[ids[k]].name = path}
    IN  IF hits = {} THEN 0 ELSE ids[MinOf(hits)]

createVariableCollection(S, name) ==
    IF ~Ok(S) THEN S ELSE
    LET T == Accept(S) IN
    IF ~Ok(T) THEN T ELSE
    [T EXCEPT !.colls = Append(@, [name |-> name, modes |-> <<"Mode 1">>,
                                   variableIds |-> <<>>])]

\* a mode's id is its position in collection.modes
renameMode(S, c, modeId, newName) ==
    IF ~Ok(S) THEN S ELSE
    LET T == Accept(S) IN
    IF ~Ok(T) THEN T ELSE
    [T EXCEPT !.colls[c].modes[modeId] = newName]

\* the new mode starts with every variable's value of the first mode
addMode(S, c, name) ==
    IF ~Ok(S) THEN S ELSE
    IF \E k \in 1..Len(S.colls[c].modes) : S.colls[c].modes[k] = name
    THEN Throw(S, "DuplicateMode") ELSE
    LET T == Accept(S) IN
    IF ~Ok(T) THEN T ELSE
    [T EXCEPT !.colls[c].modes = Append(@, name),
              !.vars = [id \in 1..Len(T.vars) |->
                          IF T.vars[id].coll = c
                          THEN [T.vars[id] EXCEPT !.valuesByMode = Append(@, @[1])]
                          ELSE T.vars[id]]]

\* the new variable's id is Len(S.vars) + 1
createVariable(S, name, c, type) ==
    IF ~Ok(S) THEN S ELSE
    LET T == Accept(S) IN
    IF ~Ok(T) THEN T ELSE
    [T EXCEPT !.vars = Append(@, [name |-> name, coll |-> c, type |-> type,
                                  valuesByMode |-> [m \in 1..Len(T.colls[c].modes) |->
                                                      DefaultValue(type)],
                                  scopes |-> <<"ALL_SCOPES">>]),
              !.colls[c].variableIds = Append(@, Len(T.vars) + 1)]

setValueForMode(S, id, modeId, value) ==
    IF ~Ok(S) THEN S ELSE
    LET T == Accept(S) IN
    IF ~Ok(T) THEN T ELSE
    [T EXCEPT !.vars[id].valuesByMode[modeId] = value]

setScopes(S, id, scopes) ==
    IF ~Ok(S) THEN S ELSE
    LET T == Accept(S) IN
    IF ~Ok(T) THEN T ELSE
    [T EXCEPT !.vars[id].scopes = scopes]

\* Upsert without the lookup: the variable is created on every run
UpsertAlwaysCreates(S, c, path, type) ==
    IF ~Ok(S) THEN S ELSE createVariable(S, path, c, type)

\* find-or-create, as every builder writes it: existing || createVariable(...)
Upsert(S, c, path, type) ==
    IF ~Ok(S) THEN S
    ELSE IF FindVariable(S, c, path) # 0 THEN S ELSE createVariable(S, path, c, type)

\* the id of the variable Upsert(S, c, path, _) leaves under that name
UpsertId(S, c, path) ==
    IF ~Ok(S) THEN 0
    ELSE IF FindVariable(S, c, path) # 0 THEN FindVariable(S, c, path) ELSE Len(S.vars) + 1

(***************************************************************************)
(* Colour conversion (material-color-utilities).                           *)
(***************************************************************************)
\* argbFromHex throws unless 3, 6 or 8 digits follow the '#'
ValidHex(hex) == Len(hex) - 1 \in {3, 6, 8}

ToSet(seq) == {seq[i] : i \in 1..Len(seq)}

generateTonalPalette(hexColor, tones) == [t \in ToSet(tones) |-> HexTone(hexColor, t)]

hexToFigmaColor(hex, alphaPct) ==
    IF alphaPct < 100 THEN RGBA(hex, alphaPct) ELSE RGB(hex)

(***************************************************************************)
(* createBaseCollection, up to its first await (lines 212-396).            *)
(***************************************************************************)
fullTones == <<1, 2, 3, 4, 5, 6, 7, 8, 9, 10, 15, 20, 25, 30, 35, 40, 50, 60, 70, 80, 85,
               90, 91, 92, 93, 94, 95, 96, 97, 98, 99>>
primaryTones == <<5, 10, 15, 20, 25, 30, 35, 40, 50, 60, 70, 80, 90, 95, 98, 99>>
neutralTones == fullTones
statusTones == primaryTones
alphaRange == <<10, 20, 30, 40, 50, 60, 70, 80, 90>>

\* Object.entries(statusColors), in order
statusColors == <<[name |-> "Success", hue |-> 150, chroma |-> 66],
                  [name |-> "Warning", hue |-> 40, chroma |-> 70],
                  [name |-> "Info", hue |-> 260, chroma |-> 84],
                  [name |-> "Failure", hue |-> 25, chroma |-> 84]>>

\* overrides.successHex, ... : the override of a status slot ("" when absent)
StatusOverride(req, name) ==
    CASE name = "Success" -> req.successHex
      [] name = "Warning" -> req.warningHex
      [] name = "Info" -> req.infoHex
      [] name = "Failure" -> req.failureHex

\* Object.entries(corners): integer-like keys first, ascending, then the others
corners == <<[name |-> "2", value |-> 2], [name |-> "4", value |-> 4],
             [name |-> "8", value |-> 8], [name |-> "12", value |-> 12],
             [name |-> "16", value |-> 16], [name |-> "24", value |-> 24],
             [name |-> "48", value |-> 48], [name |-> "96", value |-> 96],
             [name |-> "None", value |-> 0], [name |-> "Circle", value |-> 9999]>>

\* Object.entries(spacing); neg: name.startsWith('-')
spacing == <<[name |-> "0", value |-> 0, neg |-> FALSE], [name |-> "1", value |-> 8, neg |-> FALSE],
             [name |-> "2", value |-> 16, neg |-> FALSE], [name |-> "3", value |-> 24, neg |-> FALSE],
             [name |-> "4", value |-> 32, neg |-> FALSE], [name |-> "5", value |-> 40, neg |-> FALSE],
             [name |-> "6", value |-> 48, neg |-> FALSE], [name |-> "7", value |-> 56, neg |-> FALSE],
             [name |-> "8", value |-> 64, neg |-> FALSE], [name |-> "9", value |-> 72, neg |-> FALSE],
             [name |-> "10", value |-> 80, neg |-> FALSE], [name |-> "11", value |-> 88, neg |-> FALSE],
             [name |-> "12", value |-> 96, neg |-> FALSE], [name |-> "-1", value |-> -8, neg |-> TRUE],
             [name |-> "-1-2", value |-> -4, neg |-> TRUE], [name |-> "-1-4", value |-> -2, neg |-> TRUE],
             [name |-> "1-4", value |-> 2, neg |-> FALSE], [name |-> "1-2", value |-> 4, neg |-> FALSE]>>

\* a translucent variant stored as a reference to the collection's first variable
createColorVariableAliasing(S, c, modeId, path, hex, alphaPct) ==
    setValueForMode(Upsert(S, c, path, "COLOR"), UpsertId(S, c, path), modeId,
                    IF alphaPct < 100 /\ Ok(S) /\ S.colls[c].variableIds # <<>>
                    THEN Alias(S.colls[c].variableIds[1])
                    ELSE hexToFigmaColor(hex, alphaPct))

\* createColorVariable(path, hex, alpha), alpha in percent
createColorVariable(S, c, modeId, path, hex, alphaPct) ==
    setValueForMode(Upsert(S, c, path, "COLOR"), UpsertId(S, c, path), modeId,
                    hexToFigmaColor(hex, alphaPct))

\* createColorVariable for items[i..], each [path, hex, alpha]
RECURSIVE ColorLoop(_, _, _, _, _)
ColorLoop(S, c, modeId, items, i) ==
    IF i > Len(items) \/ ~Ok(S) THEN S
    ELSE ColorLoop(createColorVariable(S, c, modeId, items[i].path, items[i].hex,
                                       items[i].alpha),
                   c, modeId, items, i + 1)

\* for (const tone of tones) if (palette[tone]) createColorVariable(`Colors/${group}/${tone}`, ...)
ToneItems(group, tones, palette) ==
    LET kept == SelectSeq(tones, LAMBDA t : t \in DOMAIN palette)
    IN  [i \in 1..Len(kept) |->
            [path |-> <<"Colors", group, ToString(kept[i])>>, hex |-> palette[kept[i]],
             alpha |-> 100]]

\* Base and the Alpha/<pct> variants taken from tone 50 of the seed's palette
BaseAndAlphaItemsTone50(group, hex) ==
    <<[path |-> <<"Colors", group, "Base">>, hex |-> HexTone(hex, 50), alpha |-> 100]>>
    \o [i \in 1..Len(alphaRange) |->
            [path |-> <<"Colors", group, "Alpha", ToString(alphaRange[i])>>,
             hex |-> HexTone(hex, 50), alpha |-> alphaRange[i]]]

\* the Base token and the Alpha/<pct> variants of Primary and Neutral
BaseAndAlphaItems(group, hex) ==
    <<[path |-> <<"Colors", group, "Base">>, hex |-> hex, alpha |-> 100]>>
    \o [i \in 1..Len(alphaRange) |->
            [path |-> <<"Colors", group, "Alpha", ToString(alphaRange[i])>>, hex |-> hex,
             alpha |-> alphaRange[i]]]

\* Colors/White/100 and Colors/White/<alpha>, likewise Black
WhiteBlackItems(group, hex) ==
    <<[path |-> <<"Colors", group, "100">>, hex |-> hex, alpha |-> 100]>>
    \o [i \in 1..Len(alphaRange) |->
            [path |-> <<"Colors", group, ToString(alphaRange[i])>>, hex |-> hex,
             alpha |-> alphaRange[i]]]

\* a turn that takes the default palette whatever the override
StatusPaletteIgnoresOverride(S, c, modeId, config, override) ==
    IF ~Ok(S) THEN S
    ELSE IF override # "" /\ ~ValidHex(override) THEN Throw(S, "InvalidColorFormat")
    ELSE ColorLoop(S, c, modeId,
                   ToneItems(config.name, statusTones,
                             [t \in ToSet(statusTones) |->
                                 HexHueChroma(config.hue, config.chroma, t)])
                   \o <<[path |-> <<"Colors", config.name, "Base">>,
                         hex |-> HexHueChroma(config.hue, config.chroma, 50),
                         alpha |-> 100]>>, 1)

\* one turn of the loop over Object.entries(statusColors), lines 298-329
StatusPalette(S, c, modeId, config, override) ==
    IF ~Ok(S) THEN S
    ELSE IF override # ""
    THEN IF ~ValidHex(override) THEN Throw(S, "InvalidColorFormat")
         ELSE ColorLoop(S, c, modeId,
                        ToneItems(config.name, statusTones,
                                  generateTonalPalette(HexLit(override), statusTones))
                        \o <<[path |-> <<"Colors", config.name, "Base">>,
                              hex |-> HexLit(override), alpha |-> 100]>>, 1)
    ELSE ColorLoop(S, c, modeId,
                   ToneItems(config.name, statusTones,
                             [t \in ToSet(statusTones) |->
                                 HexHueChroma(config.hue, config.chroma, t)])
                   \o <<[path |-> <<"Colors", config.name, "Base">>,
                         hex |-> HexHueChroma(config.hue, config.chroma, 50),
                         alpha |-> 100]>>, 1)

RECURSIVE StatusLoop(_, _, _, _, _)
StatusLoop(S, c, modeId, req, i) ==
    IF i > Len(statusColors) \/ ~Ok(S) THEN S
    ELSE StatusLoop(StatusPalette(S, c, modeId, statusColors[i],
                                  StatusOverride(req, statusColors[i].name)),
                    c, modeId, req, i + 1)

\* Corners/<name>: FLOAT, scopes CORNER_RADIUS (lines 359-366)
RECURSIVE CornersLoop(_, _, _, _)
CornersLoop(S, c, modeId, i) ==
    IF i > Len(corners) \/ ~Ok(S) THEN S
    ELSE LET path == <<"Corners", corners[i].name>>
             id == UpsertId(S, c, path)
         IN  CornersLoop(setScopes(setValueForMode(Upsert(S, c, path, "FLOAT"), id, modeId,
                                                   Float(corners[i].value)),
                                   id, <<"CORNER_RADIUS">>),
                         c, modeId, i + 1)

\* Spacing/<name>: FLOAT, scoped by the sign of the name (lines 389-396)
RECURSIVE SpacingLoop(_, _, _, _)
SpacingLoop(S, c, modeId, i) ==
    IF i > Len(spacing) \/ ~Ok(S) THEN S
    ELSE LET path == <<"Spacing", spacing[i].name>>
             id == UpsertId(S, c, path)
         IN  SpacingLoop(setScopes(setValueForMode(Upsert(S, c, path, "FLOAT"), id, modeId,
                                                   Float(spacing[i].value)),
                                   id, IF spacing[i].neg THEN <<"ALL_SCOPES">>
                                       ELSE <<"WIDTH_HEIGHT", "GAP">>),
                         c, modeId, i + 1)

\* the index of the collection named `name` after find-or-create
CollectionId(S, name) ==
    IF FindCollection(S, name) # 0 THEN FindCollection(S, name) ELSE Len(S.colls) + 1

\* a collection is created on every run, whether or not one has that name
GetOrCreateCollectionAlwaysCreates(S, name) == createVariableCollection(S, name)

\* collections.find(c => c.name === name) || createVariableCollection(name)
GetOrCreateCollection(S, name) ==
    IF FindCollection(S, name) # 0 THEN S ELSE createVariableCollection(S, name)

\* createBaseCollection from its entry to the first await figma.loadFontAsync;
\* colors = [primary, neutral], the palettes the handler derived
createBaseCollection(S, colors, primaryHex, neutralBaseHex, req) ==
    LET c == CollectionId(S, "Base")
        modeId == 1
        S1 == renameMode(GetOrCreateCollection(S, "Base"), c, modeId, "Caldera")
        S2 == ColorLoop(S1, c, modeId,
                        ToneItems("Primary", primaryTones, colors.primary)
                        \o BaseAndAlphaItems("Primary", primaryHex)
                        \o ToneItems("Neutral", neutralTones, colors.neutral)
                        \o BaseAndAlphaItems("Neutral", neutralBaseHex), 1)
        S3 == StatusLoop(S2, c, modeId, req, 1)
        S4 == ColorLoop(S3, c, modeId,
                        WhiteBlackItems("White", HexLit("#FFFFFF"))
                        \o WhiteBlackItems("Black", HexLit("#000000")), 1)
    IN  SpacingLoop(CornersLoop(S4, c, modeId, 1), c, modeId, 1)

(***************************************************************************)
(* createBaseCollection, the font loads and the typography variables       *)
(* (lines 398-477).                                                        *)
(***************************************************************************)
typographyTypes == <<"Display", "Header", "Primary", "Data">>

defaults == [Display |-> [family |-> "Inter", style |-> "Bold"],
             Header |-> [family |-> "Inter", style |-> "SemiBold"],
             Primary |-> [family |-> "Inter", style |-> "Regular"],
             Data |-> [family |-> "Space Mono", style |-> "Regular"]]

\* loadedFonts[typeName] when nothing was loaded for the role
NoFont == [family |-> "", style |-> ""]

\* the font the attempt-th await of a role's chain asks for (lines 414-438)
TargetFont(req, typeName, attempt) ==
    LET fontOverride == req.fontOverrides[typeName]
    IN  CASE attempt = 1 ->
               [family |-> IF fontOverride.family # "" THEN fontOverride.family
                           ELSE defaults[typeName].family,
                style |-> IF fontOverride.style # "" THEN fontOverride.style
                          ELSE defaults[typeName].style]
          [] attempt = 2 -> defaults[typeName]
          [] OTHER -> [family |-> "Inter", style |-> "Regular"]

\* a role without a loaded font gets its two variables with empty strings
TypographyRoleWritesEmpty(S, c, modeId, typeName, loadedFont) ==
    IF ~Ok(S) THEN S
    ELSE LET fontPath == <<"Typography", typeName, "Font">>
             stylePath == <<"Typography", typeName, "Style">>
             fontId == UpsertId(S, c, fontPath)
             S1 == setValueForMode(Upsert(S, c, fontPath, "STRING"), fontId, modeId,
                                   Str(loadedFont.family))
             styleId == UpsertId(S1, c, stylePath)
         IN  setValueForMode(Upsert(S1, c, stylePath, "STRING"), styleId, modeId,
                             Str(loadedFont.style))

\* the Font and the Style variable of one role (lines 450-474)
TypographyRole(S, c, modeId, typeName, loadedFont) ==
    IF loadedFont = NoFont \/ ~Ok(S) THEN S
    ELSE LET fontPath == <<"Typography", typeName, "Font">>
             stylePath == <<"Typography", typeName, "Style">>
             fontId == UpsertId(S, c, fontPath)
             S1 == setScopes(setValueForMode(Upsert(S, c, fontPath, "STRING"), fontId, modeId,
                                             Str(loadedFont.family)),
                             fontId, <<"TEXT_CONTENT", "FONT_FAMILY">>)
             styleId == UpsertId(S1, c, stylePath)
         IN  setScopes(setValueForMode(Upsert(S1, c, stylePath, "STRING"), styleId, modeId,
                                       Str(loadedFont.style)),
                       styleId, <<"FONT_STYLE">>)

RECURSIVE TypographyLoop(_, _, _, _, _)
TypographyLoop(S, c, modeId, loadedFonts, i) ==
    IF i > Len(typographyTypes) \/ ~Ok(S) THEN S
    ELSE TypographyLoop(TypographyRole(S, c, modeId, typographyTypes[i],
                                       loadedFonts[typographyTypes[i]]),
                        c, modeId, loadedFonts, i + 1)

(***************************************************************************)
(* createThemeCollection (lines 480-646).                                  *)
(***************************************************************************)
\* createAliasVariable that looks its targets up in the Theme collection itself
createAliasVariableWrongCollection(S, c, baseCollection, lightModeId, darkModeId, a) ==
    LET variable == UpsertId(S, c, a.path)
        S1 == Upsert(S, c, a.path, a.type)
        lightBaseVar == FindVariable(S1, c, a.light)
        darkBaseVar == FindVariable(S1, c, a.dark)
        S2 == IF lightBaseVar # 0
              THEN setValueForMode(S1, variable, lightModeId, Alias(lightBaseVar))
              ELSE S1
    IN  IF darkBaseVar # 0 /\ darkModeId # 0
        THEN setValueForMode(S2, variable, darkModeId, Alias(darkBaseVar))
        ELSE S2

\* createAliasVariable with the two modes' targets exchanged
createAliasVariableSwapped(S, c, baseCollection, lightModeId, darkModeId, a) ==
    LET variable == UpsertId(S, c, a.path)
        S1 == Upsert(S, c, a.path, a.type)
        lightBaseVar == FindVariable(S1, baseCollection, a.dark)
        darkBaseVar == FindVariable(S1, baseCollection, a.light)
        S2 == IF lightBaseVar # 0
              THEN setValueForMode(S1, variable, lightModeId, Alias(lightBaseVar))
              ELSE S1
    IN  IF darkBaseVar # 0 /\ darkModeId # 0
        THEN setValueForMode(S2, variable, darkModeId, Alias(darkBaseVar))
        ELSE S2

\* createAliasVariable(path, lightAlias, darkAlias, type)
createAliasVariable(S, c, baseCollection, lightModeId, darkModeId, a) ==
    LET variable == UpsertId(S, c, a.path)
        S1 == Upsert(S, c, a.path, a.type)
        lightBaseVar == FindVariable(S1, baseCollection, a.light)
        darkBaseVar == FindVariable(S1, baseCollection, a.dark)
        S2 == IF lightBaseVar # 0
              THEN setValueForMode(S1, variable, lightModeId, Alias(lightBaseVar))
              ELSE S1
    IN  IF darkBaseVar # 0 /\ darkModeId # 0
        THEN setValueForMode(S2, variable, darkModeId, Alias(darkBaseVar))
        ELSE S2

RECURSIVE AliasLoop(_, _, _, _, _, _, _)
AliasLoop(S, c, baseCollection, lightModeId, darkModeId, items, i) ==
    IF i > Len(items) \/ ~Ok(S) THEN S
    ELSE AliasLoop(createAliasVariable(S, c, baseCollection, lightModeId, darkModeId,
                                       items[i]),
                   c, baseCollection, lightModeId, darkModeId, items, i + 1)

\* the createAliasVariable calls of lines 542-606, in order
themeAliases ==
    <<
      [path |-> <<"Background", "Main">>, light |-> <<"Colors", "Neutral", "90">>, dark |-> <<"Colors", "Neutral", "15">>, type |-> "COLOR"],
      [path |-> <<"Background", "Layer 1">>, light |-> <<"Colors", "Neutral", "99">>, dark |-> <<"Colors", "Neutral", "30">>, type |-> "COLOR"],
      [path |-> <<"Background", "Layer 2">>, light |-> <<"Colors", "Neutral", "96">>, dark |-> <<"Colors", "Neutral", "25">>, type |-> "COLOR"],
      [path |-> <<"Background", "Layer 3">>, light |-> <<"Colors", "Neutral", "93">>, dark |-> <<"Colors", "Neutral", "20">>, type |-> "COLOR"],
      [path |-> <<"Text", "Primary">>, light |-> <<"Colors", "Neutral", "10">>, dark |-> <<"Colors", "Neutral", "98">>, type |-> "COLOR"],
      [path |-> <<"Text", "Secondary">>, light |-> <<"Colors", "Neutral", "40">>, dark |-> <<"Colors", "Neutral", "90">>, type |-> "COLOR"],
      [path |-> <<"Text", "Disabled">>, light |-> <<"Colors", "Neutral", "Alpha", "50">>, dark |-> <<"Colors", "White", "100">>, type |-> "COLOR"],
      [path |-> <<"Interactive", "Primary", "Active">>, light |-> <<"Colors", "Primary", "60">>, dark |-> <<"Colors", "Primary", "60">>, type |-> "COLOR"],
      [path |-> <<"Interactive", "Primary", "Hover">>, light |-> <<"Colors", "Primary", "70">>, dark |-> <<"Colors", "Primary", "40">>, type |-> "COLOR"],
      [path |-> <<"Interactive", "Primary", "Inactive">>, light |-> <<"Colors", "Primary", "95">>, dark |-> <<"Colors", "Primary", "95">>, type |-> "COLOR"],
      [path |-> <<"Interactive", "Primary", "Disabled">>, light |-> <<"Colors", "Neutral", "Alpha", "30">>, dark |-> <<"Colors", "Neutral", "Alpha", "30">>, type |-> "COLOR"],
      [path |-> <<"Interactive", "Primary", "Contrast">>, light |-> <<"Colors", "Primary", "98">>, dark |-> <<"Colors", "Primary", "5">>, type |-> "COLOR"],
      [path |-> <<"Interactive", "Secondary", "Active">>, light |-> <<"Colors", "Primary", "40">>, dark |-> <<"Colors", "Primary", "70">>, type |-> "COLOR"],
      [path |-> <<"Interactive", "Secondary", "Hover">>, light |-> <<"Colors", "Primary", "50">>, dark |-> <<"Colors", "Primary", "50">>, type |-> "COLOR"],
      [path |-> <<"Interactive", "Secondary", "Inactive">>, light |-> <<"Colors", "Neutral", "40">>, dark |-> <<"Colors", "Neutral", "85">>, type |-> "COLOR"],
      [path |-> <<"Interactive", "Secondary", "Disabled">>, light |-> <<"Colors", "Neutral", "Alpha", "30">>, dark |-> <<"Colors", "Neutral", "Alpha", "30">>, type |-> "COLOR"],
      [path |-> <<"Interactive", "Secondary", "Contrast">>, light |-> <<"Colors", "Primary", "98">>, dark |-> <<"Colors", "Primary", "5">>, type |-> "COLOR"],
      [path |-> <<"Interactive", "Tertiary", "Active">>, light |-> <<"Colors", "Neutral", "40">>, dark |-> <<"Colors", "Neutral", "90">>, type |-> "COLOR"],
      [path |-> <<"Interactive", "Tertiary", "Hover">>, light |-> <<"Colors", "Neutral", "95">>, dark |-> <<"Colors", "Neutral", "80">>, type |-> "COLOR"],
      [path |-> <<"Interactive", "Tertiary", "Inactive">>, light |-> <<"Colors", "Neutral", "85">>, dark |-> <<"Colors", "White", "20">>, type |-> "COLOR"],
      [path |-> <<"Interactive", "Tertiary", "Disabled">>, light |-> <<"Colors", "Neutral", "Alpha", "30">>, dark |-> <<"Colors", "White", "10">>, type |-> "COLOR"],
      [path |-> <<"Interactive", "Tertiary", "Contrast">>, light |-> <<"Colors", "Neutral", "98">>, dark |-> <<"Colors", "Neutral", "10">>, type |-> "COLOR"],
      [path |-> <<"Interactive", "Input", "Active">>, light |-> <<"Colors", "Neutral", "Alpha", "10">>, dark |-> <<"Colors", "Neutral", "Alpha", "10">>, type |-> "COLOR"],
      [path |-> <<"Interactive", "Input", "Inactive">>, light |-> <<"Colors", "Neutral", "Alpha", "20">>, dark |-> <<"Colors", "Neutral", "Alpha", "20">>, type |-> "COLOR"],
      [path |-> <<"Status", "Warning", "Main">>, light |-> <<"Colors", "Warning", "80">>, dark |-> <<"Colors", "Warning", "80">>, type |-> "COLOR"],
      [path |-> <<"Status", "Warning", "Foreground">>, light |-> <<"Colors", "Warning", "5">>, dark |-> <<"Colors", "Warning", "5">>, type |-> "COLOR"],
      [path |-> <<"Status", "Warning", "Light">>, light |-> <<"Colors", "Warning", "95">>, dark |-> <<"Colors", "Warning", "40">>, type |-> "COLOR"],
      [path |-> <<"Status", "Warning", "Dark">>, light |-> <<"Colors", "Warning", "40">>, dark |-> <<"Colors", "Warning", "95">>, type |-> "COLOR"],
      [path |-> <<"Status", "Info", "Main">>, light |-> <<"Colors", "Info", "50">>, dark |-> <<"Colors", "Info", "50">>, type |-> "COLOR"],
      [path |-> <<"Status", "Info", "Foreground">>, light |-> <<"Colors", "Info", "99">>, dark |-> <<"Colors", "Neutral", "99">>, type |-> "COLOR"],
      [path |-> <<"Status", "Info", "Light">>, light |-> <<"Colors", "Info", "90">>, dark |-> <<"Colors", "Info", "20">>, type |-> "COLOR"],
      [path |-> <<"Status", "Info", "Dark">>, light |-> <<"Colors", "Info", "20">>, dark |-> <<"Colors", "Info", "90">>, type |-> "COLOR"],
      [path |-> <<"Status", "Failure", "Main">>, light |-> <<"Colors", "Failure", "60">>, dark |-> <<"Colors", "Failure", "60">>, type |-> "COLOR"],
      [path |-> <<"Status", "Failure", "Foreground">>, light |-> <<"Colors", "Failure", "99">>, dark |-> <<"Colors", "Failure", "99">>, type |-> "COLOR"],
      [path |-> <<"Status", "Failure", "Light">>, light |-> <<"Colors", "Failure", "90">>, dark |-> <<"Colors", "Failure", "20">>, type |-> "COLOR"],
      [path |-> <<"Status", "Failure", "Dark">>, light |-> <<"Colors", "Failure", "20">>, dark |-> <<"Colors", "Failure", "90">>, type |-> "COLOR"],
      [path |-> <<"Status", "Success", "Main">>, light |-> <<"Colors", "Success", "90">>, dark |-> <<"Colors", "Success", "90">>, type |-> "COLOR"],
      [path |-> <<"Status", "Success", "Foreground">>, light |-> <<"Colors", "Success", "5">>, dark |-> <<"Colors", "Success", "5">>, type |-> "COLOR"],
      [path |-> <<"Status", "Success", "Light">>, light |-> <<"Colors", "Success", "98">>, dark |-> <<"Colors", "Success", "30">>, type |-> "COLOR"],
      [path |-> <<"Status", "Success", "Dark">>, light |-> <<"Colors", "Success", "30">>, dark |-> <<"Colors", "Success", "98">>, type |-> "COLOR"]
    >>

\* cornerMappings[0..4], 1-based here
cornerMappings ==
    <<[None |-> "None", XS |-> "None", SM |-> "None", Base |-> "None", LG |-> "None", XL |-> "None"],
      [None |-> "2", XS |-> "2", SM |-> "2", Base |-> "2", LG |-> "2", XL |-> "2"],
      [None |-> "None", XS |-> "2", SM |-> "4", Base |-> "8", LG |-> "12", XL |-> "16"],
      [None |-> "2", XS |-> "4", SM |-> "8", Base |-> "16", LG |-> "24", XL |-> "48"],
      [None |-> "2", XS |-> "8", SM |-> "16", Base |-> "24", LG |-> "48", XL |-> "96"]>>

\* a level beyond the table takes the table's last row
CornerMappingClamped(cornerRadiusLevel) ==
    IF cornerRadiusLevel \in 0..4 THEN cornerMappings[cornerRadiusLevel + 1]
    ELSE cornerMappings[5]

\* cornerMappings[cornerRadiusLevel] || cornerMappings[3]
CornerMapping(cornerRadiusLevel) ==
    IF cornerRadiusLevel \in 0..4 THEN cornerMappings[cornerRadiusLevel + 1]
    ELSE cornerMappings[4]

CornerAlias(name, target) ==
    [path |-> <<"Corners", name>>, light |-> <<"Corners", target>>,
     dark |-> <<"Corners", target>>, type |-> "FLOAT"]

\* the createAliasVariable calls of lines 629-635
cornerAliases(mapping) ==
    <<CornerAlias("None", mapping.None), CornerAlias("XS", mapping.XS),
      CornerAlias("SM", mapping.SM), CornerAlias("Base", mapping.Base),
      CornerAlias("LG", mapping.LG), CornerAlias("XL", mapping.XL),
      CornerAlias("Circle", "Circle")>>

\* the createAliasVariable calls of lines 638-643
miscAliases ==
    <<
      [path |-> <<"Corners", "Circle">>, light |-> <<"Corners", "Circle">>, dark |-> <<"Corners", "Circle">>, type |-> "FLOAT"],
      [path |-> <<"Misc", "Divider">>, light |-> <<"Colors", "Black", "10">>, dark |-> <<"Colors", "White", "10">>, type |-> "COLOR"],
      [path |-> <<"Misc", "Footer">>, light |-> <<"Colors", "Black", "50">>, dark |-> <<"Colors", "White", "50">>, type |-> "COLOR"],
      [path |-> <<"Misc", "Skeleton">>, light |-> <<"Colors", "Black", "10">>, dark |-> <<"Colors", "White", "10">>, type |-> "COLOR"],
      [path |-> <<"Brand">>, light |-> <<"Colors", "Primary", "Base">>, dark |-> <<"Colors", "Primary", "Base">>, type |-> "COLOR"]
    >>

\* themeCollection.modes.find(m => m.name === "Dark")?.modeId: 0 when undefined
\* the lookup of an existing mode never finds one
FindModeNever(S, c, name) == 0

\* collection.modes.find(m => m.name === name): its position, 0 when undefined
FindMode(S, c, name) ==
    LET hits == {k \in 1..Len(S.colls[c].modes) : S.colls[c].modes[k] = name}
    IN  IF hits = {} THEN 0 ELSE MinOf(hits)

createThemeCollection(S, baseCollection, cornerRadiusLevel) ==
    LET c == CollectionId(S, "Theme")
        lightModeId == 1
        S1 == renameMode(GetOrCreateCollection(S, "Theme"), c, lightModeId, "Light")
        found == IF Ok(S1) THEN FindMode(S1, c, "Dark") ELSE 0
        S2 == IF found = 0 THEN addMode(S1, c, "Dark") ELSE S1
        darkModeId == IF found # 0 THEN found
                      ELSE IF Ok(S2) THEN Len(S2.colls[c].modes) ELSE 0
    IN  AliasLoop(S2, c, baseCollection, lightModeId, darkModeId,
                  themeAliases \o cornerAliases(CornerMapping(cornerRadiusLevel))
                  \o miscAliases, 1)

(***************************************************************************)
(* createBridgeCollection (lines 649-749).                                 *)
(***************************************************************************)
transparentColor == RGBA(HexLit("#000000"), 0)

\* the fallback table of line 708
spacingValues == [x \in {"0", "1", "2", "3", "4", "5", "6", "7", "8", "9", "10", "11", "12"} |->
                    CASE x = "0" -> 0 [] x = "1" -> 8 [] x = "2" -> 16 [] x = "3" -> 24
                      [] x = "4" -> 32 [] x = "5" -> 40 [] x = "6" -> 48 [] x = "7" -> 56
                      [] x = "8" -> 64 [] x = "9" -> 72 [] x = "10" -> 80 [] x = "11" -> 88
                      [] x = "12" -> 96]

\* spacingValues[modalPaddingSize] || 16: a missing key and the value 0 are both falsy
PaddingFallback(modalPaddingSize) ==
    IF modalPaddingSize \in DOMAIN spacingValues /\ spacingValues[modalPaddingSize] # 0
    THEN spacingValues[modalPaddingSize]
    ELSE 16

\* Modal/Background left as it is when the modal is disabled
ModalBackgroundKeeps(S, c, themeCollection, defaultModeId, modalBackgroundEnabled) ==
    LET modalBgVariable == UpsertId(S, c, <<"Modal", "Background">>)
        S1 == Upsert(S, c, <<"Modal", "Background">>, "COLOR")
        themeBgVar == FindVariable(S1, themeCollection, <<"Background", "Main">>)
    IN  IF ~Ok(S1) THEN S1
        ELSE IF modalBackgroundEnabled /\ themeBgVar # 0
        THEN setValueForMode(S1, modalBgVariable, defaultModeId, Alias(themeBgVar))
        ELSE S1

\* Modal/Background, lines 670-688
ModalBackground(S, c, themeCollection, defaultModeId, modalBackgroundEnabled) ==
    LET modalBgVariable == UpsertId(S, c, <<"Modal", "Background">>)
        S1 == Upsert(S, c, <<"Modal", "Background">>, "COLOR")
        themeBgVar == FindVariable(S1, themeCollection, <<"Background", "Main">>)
    IN  IF ~Ok(S1) THEN S1
        ELSE IF modalBackgroundEnabled
        THEN IF themeBgVar # 0
             THEN setValueForMode(S1, modalBgVariable, defaultModeId, Alias(themeBgVar))
             ELSE S1
        ELSE setValueForMode(S1, modalBgVariable, defaultModeId, transparentColor)

\* a Modal/Padding whose fallback is 16 whatever the size
ModalPaddingSixteen(S, c, defaultModeId, modalBackgroundEnabled, modalPaddingSize) ==
    LET modalPaddingVariable == UpsertId(S, c, <<"Modal", "Padding">>)
        S1 == Upsert(S, c, <<"Modal", "Padding">>, "FLOAT")
        baseCollection == FindCollection(S1, "Base")
        selectedSpacingVar == IF baseCollection = 0 THEN 0
                              ELSE FindVariable(S1, baseCollection,
                                                <<"Spacing", modalPaddingSize>>)
    IN  IF ~Ok(S1) THEN S1
        ELSE IF modalBackgroundEnabled
        THEN IF selectedSpacingVar # 0
             THEN setValueForMode(S1, modalPaddingVariable, defaultModeId,
                                  Alias(selectedSpacingVar))
             ELSE setValueForMode(S1, modalPaddingVariable, defaultModeId, Float(16))
        ELSE setValueForMode(S1, modalPaddingVariable, defaultModeId, Float(0))

\* Modal/Padding, lines 692-717
ModalPadding(S, c, defaultModeId, modalBackgroundEnabled, modalPaddingSize) ==
    LET modalPaddingVariable == UpsertId(S, c, <<"Modal", "Padding">>)
        S1 == Upsert(S, c, <<"Modal", "Padding">>, "FLOAT")
        baseCollection == FindCollection(S1, "Base")
        selectedSpacingVar == IF baseCollection = 0 THEN 0
                              ELSE FindVariable(S1, baseCollection,
                                                <<"Spacing", modalPaddingSize>>)
    IN  IF ~Ok(S1) THEN S1
        ELSE IF modalBackgroundEnabled
        THEN IF selectedSpacingVar # 0
             THEN setValueForMode(S1, modalPaddingVariable, defaultModeId,
                                  Alias(selectedSpacingVar))
             ELSE setValueForMode(S1, modalPaddingVariable, defaultModeId,
                                  Float(PaddingFallback(modalPaddingSize)))
        ELSE setValueForMode(S1, modalPaddingVariable, defaultModeId, Float(0))

\* Header/Icons Pairing switched on whatever the request says
HeaderIconsPairingAlwaysOn(S, c, defaultModeId, headerIconsPairingEnabled) ==
    setValueForMode(Upsert(S, c, <<"Header", "Icons Pairing">>, "BOOLEAN"),
                    UpsertId(S, c, <<"Header", "Icons Pairing">>), defaultModeId,
                    Bool(TRUE))

\* Header/Icons Pairing, lines 721-724
HeaderIconsPairing(S, c, defaultModeId, headerIconsPairingEnabled) ==
    setValueForMode(Upsert(S, c, <<"Header", "Icons Pairing">>, "BOOLEAN"),
                    UpsertId(S, c, <<"Header", "Icons Pairing">>), defaultModeId,
                    Bool(headerIconsPairingEnabled))

\* Header/Background looked up in the Bridge collection: it aliases Modal/Background
HeaderBackgroundChained(S, c, themeCollection, defaultModeId, headerBackgroundEnabled) ==
    LET headerBgVariable == UpsertId(S, c, <<"Header", "Background">>)
        S1 == Upsert(S, c, <<"Header", "Background">>, "COLOR")
        bridgeVar == FindVariable(S1, c, <<"Modal", "Background">>)
    IN  IF ~Ok(S1) THEN S1
        ELSE IF headerBackgroundEnabled
        THEN IF bridgeVar # 0
             THEN setValueForMode(S1, headerBgVariable, defaultModeId, Alias(bridgeVar))
             ELSE S1
        ELSE setValueForMode(S1, headerBgVariable, defaultModeId, transparentColor)

\* Header/Background, lines 728-746
HeaderBackground(S, c, themeCollection, defaultModeId, headerBackgroundEnabled) ==
    LET headerBgVariable == UpsertId(S, c, <<"Header", "Background">>)
        S1 == Upsert(S, c, <<"Header", "Background">>, "COLOR")
        themeDividerVar == FindVariable(S1, themeCollection, <<"Misc", "Divider">>)
    IN  IF ~Ok(S1) THEN S1
        ELSE IF headerBackgroundEnabled
        THEN IF themeDividerVar # 0
             THEN setValueForMode(S1, headerBgVariable, defaultModeId,
                                  Alias(themeDividerVar))
             ELSE S1
        ELSE setValueForMode(S1, headerBgVariable, defaultModeId, transparentColor)

createBridgeCollection(S, themeCollection, modalBackgroundEnabled, modalPaddingSize, headerIconsPairingEnabled, headerBackgroundEnabled) ==
    LET c == CollectionId(S, "Bridge")
        defaultModeId == 1
        S1 == renameMode(GetOrCreateCollection(S, "Bridge"), c, defaultModeId, "Default")
        S2 == ModalBackground(S1, c, themeCollection, defaultModeId, modalBackgroundEnabled)
        S3 == ModalPadding(S2, c, defaultModeId, modalBackgroundEnabled, modalPaddingSize)
        S4 == HeaderIconsPairing(S3, c, defaultModeId, headerIconsPairingEnabled)
    IN  HeaderBackground(S4, c, themeCollection, defaultModeId, headerBackgroundEnabled)

(***************************************************************************)
(* The generate-theme message and figma.ui.onmessage (lines 1004-1065).    *)
(* A request field the message leaves out is named in req.absent; an       *)
(* absent hex is "" (falsy, like undefined).                               *)
(***************************************************************************)
NoOverrides == [Display |-> NoFont, Header |-> NoFont, Primary |-> NoFont, Data |-> NoFont]

DefaultRequest ==
    [hex |-> "#3366CC", neutralHex |-> "", successHex |-> "", warningHex |-> "",
     infoHex |-> "", failureHex |-> "", cornerRadiusLevel |-> 3,
     fontOverrides |-> NoOverrides, modalBackgroundEnabled |-> TRUE,
     modalPaddingSize |-> "2", headerIconsPairingEnabled |-> TRUE,
     headerBackgroundEnabled |-> FALSE,
     absent |-> {"cornerRadiusLevel", "modalBackgroundEnabled", "modalPaddingSize",
                 "headerIconsPairingEnabled", "headerBackgroundEnabled"}]

\* a parameter with a default value: the default stands in for undefined
Arg(req, field, default) == IF field \in req.absent THEN default ELSE req[field]

\* the saturation generateNeutralFromPrimary gives the neutral seed
NeutralSaturation == 2

\* a neutral base desaturated to 5 percent
NeutralBaseAtFive(req) ==
    IF req.neutralHex # "" THEN HexLit(req.neutralHex)
    ELSE HexHsl(req.hex, 5)

\* neutralBase of lines 1028-1042
NeutralBase(req) ==
    IF req.neutralHex # "" THEN HexLit(req.neutralHex)
    ELSE HexHsl(req.hex, NeutralSaturation)

\* colors of lines 1029-1042: the primary and the neutral palette
Colors(req) ==
    [primary |-> generateTonalPalette(HexLit(req.hex), fullTones),
     neutral |-> generateTonalPalette(NeutralBase(req), fullTones)]

\* no argbFromHex of lines 1030-1053 throws
DerivationOk(req) ==
    /\ ValidHex(req.hex)
    /\ req.neutralHex # "" => ValidHex(req.neutralHex)
    /\ req.successHex # "" => ValidHex(req.successHex)
    /\ req.warningHex # "" => ValidHex(req.warningHex)
    /\ req.infoHex # "" => ValidHex(req.infoHex)

NoFonts == [Display |-> NoFont, Header |-> NoFont, Primary |-> NoFont, Data |-> NoFont]

\* the store as a segment finds it
Begin == [colls |-> colls, vars |-> vars, fuse |-> fuse, err |-> "", n |-> 0]

\* a segment leaves its writes in the store, also when it ends in an exception
Commit(T) ==
    /\ colls' = T.colls
    /\ vars' = T.vars
    /\ fuse' = T.fuse

\* where the handler goes on after a segment: the catch of createFigmaVariables
\* when the segment threw
After(T, pc) == IF Ok(T) THEN pc ELSE "catch"

\* the runs that have store writes ahead of them
Writing == {i \in 1..Len(runs) : runs[i].pc \in {"font", "theme", "bridge"}}

\* a generate-theme message arrives: the handler runs to its first await
GenerateTheme(req) ==
    /\ Len(runs) < MaxRuns
    /\ IF ~DerivationOk(req)
       THEN /\ runs' = Append(runs, [req |-> req, pc |-> "rejected",
                                     err |-> "InvalidColorFormat", failedIn |-> "derive",
                                     baseCollection |-> 0, themeCollection |-> 0,
                                     loadedFonts |-> NoFonts,
                                     tried |-> <<>>, writes |-> 0,
                                     concurrent |-> Writing])
            /\ UNCHANGED store
       ELSE LET T == createBaseCollection(Begin, Colors(req), HexLit(req.hex),
                                          NeutralBase(req), req)
            IN  /\ Commit(T)
                /\ runs' = Append(runs, [req |-> req, pc |-> After(T, "font"),
                                         err |-> T.err,
                                         failedIn |-> IF Ok(T) THEN "" ELSE "base",
                                         baseCollection |-> CollectionId(Begin, "Base"),
                                         themeCollection |-> 0,
                                         loadedFonts |-> NoFonts, tried |-> <<>>,
                                         writes |-> T.n, concurrent |-> Writing])
    /\ UNCHANGED <<available, posted, notes, held, snap, cancelled>>

\* a chain that goes through its three links whether or not one has loaded
RECURSIVE FontChainExhaustive(_, _, _)
FontChainExhaustive(req, typeName, attempt) ==
    LET target == TargetFont(req, typeName, attempt)
        this == <<[role |-> typeName, font |-> target, ok |-> target \in available]>>
    IN  IF attempt = 3 THEN this
        ELSE this \o FontChainExhaustive(req, typeName, attempt + 1)

\* the awaits of one role's chain (lines 418-445): the attempts made, in order
RECURSIVE FontChain(_, _, _)
FontChain(req, typeName, attempt) ==
    LET target == TargetFont(req, typeName, attempt)
        ok == target \in available
        this == <<[role |-> typeName, font |-> target, ok |-> ok]>>
    IN  IF ok \/ attempt = 3 THEN this
        ELSE this \o FontChain(req, typeName, attempt + 1)

\* the attempts of the loop over typographyTypes (lines 413-446)
RECURSIVE FontLoads(_, _)
FontLoads(req, i) ==
    IF i > Len(typographyTypes) THEN <<>>
    ELSE FontChain(req, typographyTypes[i], 1) \o FontLoads(req, i + 1)

\* loadedFonts after the attempts `tried`
LoadedFonts(tried) ==
    [typeName \in ToSet(typographyTypes) |->
        LET hits == {k \in 1..Len(tried) : tried[k].role = typeName /\ tried[k].ok}
        IN  IF hits = {} THEN NoFont ELSE tried[MinOf(hits)].font]

\* the awaited figma.loadFontAsync calls of run r settle, one after the other
\* (the handler touches only its locals between them); then the typography
\* variables are written and createBaseCollection returns
FontsSettled(r) ==
    /\ runs[r].pc = "font"
    /\ LET run == runs[r]
           tried == FontLoads(run.req, 1)
           loaded == LoadedFonts(tried)
           T == TypographyLoop(Begin, run.baseCollection, 1, loaded, 1)
       IN  /\ Commit(T)
           /\ runs' = [runs EXCEPT ![r].pc = After(T, "theme"),
                                   ![r].err = T.err,
                                   ![r].failedIn = IF Ok(T) THEN "" ELSE "base",
                                   ![r].loadedFonts = loaded,
                                   ![r].tried = tried,
                                   ![r].writes = @ + T.n]
    /\ UNCHANGED <<available, posted, notes, held, snap, cancelled>>

\* createThemeCollection(baseCollection, cornerRadiusLevel), line 760
Theme(r) ==
    /\ runs[r].pc = "theme"
    /\ LET run == runs[r]
           T == createThemeCollection(Begin, run.baseCollection,
                                      Arg(run.req, "cornerRadiusLevel", 3))
       IN  /\ Commit(T)
           /\ runs' = [runs EXCEPT ![r].pc = After(T, "bridge"),
                                   ![r].err = T.err,
                                   ![r].failedIn = IF Ok(T) THEN "" ELSE "theme",
                                   ![r].themeCollection = CollectionId(Begin, "Theme"),
                                   ![r].writes = @ + T.n]
    /\ UNCHANGED <<available, posted, notes, held, snap, cancelled>>

\* createBridgeCollection(themeCollection, ...), line 764
Bridge(r) ==
    /\ runs[r].pc = "bridge"
    /\ LET run == runs[r]
           T == createBridgeCollection(Begin, run.themeCollection,
                                       Arg(run.req, "modalBackgroundEnabled", TRUE),
                                       Arg(run.req, "modalPaddingSize", "2"),
                                       Arg(run.req, "headerIconsPairingEnabled", TRUE),
                                       Arg(run.req, "headerBackgroundEnabled", FALSE))
       IN  /\ Commit(T)
           /\ runs' = [runs EXCEPT ![r].pc = After(T, "notify"),
                                   ![r].err = T.err,
                                   ![r].failedIn = IF Ok(T) THEN "" ELSE "bridge",
                                   ![r].writes = @ + T.n]
           /\ IF Ok(T)
              THEN /\ snap' = [colls |-> T.colls, vars |-> T.vars, run |-> r]
                   /\ held' = IF held # 0 THEN held
                              ELSE FindVariable(T, run.themeCollection,
                                                <<"Background", "Main">>)
              ELSE UNCHANGED <<held, snap>>
    /\ UNCHANGED <<available, posted, notes, cancelled>>

\* lines 766-771: the success notification and the first generation-complete
Succeed(r) ==
    /\ runs[r].pc = "notify"
    /\ notes' = notes (+) SetToBag({[run |-> r, error |-> FALSE]})
    /\ posted' = posted (+) SetToBag({[type |-> "generation-complete", run |-> r]})
    /\ runs' = [runs EXCEPT ![r].pc = "return"]
    /\ UNCHANGED <<store, available, held, snap, cancelled>>

\* a catch that swallows the error: nothing is shown
CatchSilent(r) ==
    /\ runs[r].pc = "catch"
    /\ runs' = [runs EXCEPT ![r].pc = "return"]
    /\ UNCHANGED <<store, available, posted, notes, held, snap, cancelled>>

\* lines 773-776: the catch of createFigmaVariables
Catch(r) ==
    /\ runs[r].pc = "catch"
    /\ notes' = notes (+) SetToBag({[run |-> r, error |-> TRUE]})
    /\ runs' = [runs EXCEPT ![r].pc = "return"]
    /\ UNCHANGED <<store, available, posted, held, snap, cancelled>>

\* lines 1061-1064: the handler's own generation-complete
Return(r) ==
    /\ runs[r].pc = "return"
    /\ posted' = posted (+) SetToBag({[type |-> "generation-complete", run |-> r]})
    /\ runs' = [runs EXCEPT ![r].pc = "done"]
    /\ UNCHANGED <<store, available, notes, held, snap, cancelled>>

(***************************************************************************)
(* The requests the UI sends, the fonts of the host, and the behaviours.   *)
(***************************************************************************)
ReqA == DefaultRequest

ReqB ==
    [DefaultRequest EXCEPT !.hex = "#CC3366", !.neutralHex = "#808080",
                           !.cornerRadiusLevel = 0,
                           !.fontOverrides = [NoOverrides EXCEPT
                               !.Display = [family |-> "Roboto", style |-> "Bold"]],
                           !.modalBackgroundEnabled = FALSE,
                           !.headerBackgroundEnabled = TRUE,
                           !.absent = {"modalPaddingSize", "headerIconsPairingEnabled"}]

\* a failure override that argbFromHex rejects: five digits
ReqBadFailure == [DefaultRequest EXCEPT !.failureHex = "#12345"]

\* an info override that argbFromHex rejects
ReqBadInfo == [DefaultRequest EXCEPT !.infoHex = "#12345"]

Requests == {ReqA, ReqB, ReqBadFailure, ReqBadInfo}

AllFonts == {[family |-> "Inter", style |-> "Bold"], [family |-> "Inter", style |-> "SemiBold"],
             [family |-> "Inter", style |-> "Regular"],
             [family |-> "Space Mono", style |-> "Regular"],
             [family |-> "Roboto", style |-> "Bold"]}

\* every font loads; or only the font ReqB asks for
FontEnvs == {AllFonts, {[family |-> "Roboto", style |-> "Bold"]}}

\* the store never rejects a write (-1), or it rejects the write that follows this
\* many accepted ones: creating Base; the first setValueForMode; addMode("Dark")
\* of a first run; a Theme alias; a Bridge write; a write of a second run
RejectAfter == {-1, 0, 3, 422, 500, 580, 700}

NoSnap == [colls |-> <<>>, vars |-> <<>>, run |-> 0]

Init ==
    /\ colls = <<>>
    /\ vars = <<>>
    /\ fuse \in RejectAfter
    /\ available \in FontEnvs
    /\ runs = <<>>
    /\ posted = EmptyBag
    /\ notes = EmptyBag
    /\ held = 0
    /\ snap = NoSnap
    /\ cancelled = FALSE

Next ==
    \/ \E req \in Requests : GenerateTheme(req)
    \/ \E r \in 1..Len(runs) : FontsSettled(r)
    \/ \E r \in 1..Len(runs) : Theme(r)
    \/ \E r \in 1..Len(runs) : Bridge(r)
    \/ \E r \in 1..Len(runs) : Succeed(r)
    \/ \E r \in 1..Len(runs) : Catch(r)
    \/ \E r \in 1..Len(runs) : Return(r)

Spec == Init /\ [][Next]_allVars

(***************************************************************************)
(* What the claims speak of.                                               *)
(***************************************************************************)
\* resolve(variable, modeId): follows one alias, into the target's same mode when
\* it has one and its first mode otherwise
Resolve(S, id, modeId) ==
    LET v == S.vars[id].valuesByMode[modeId]
    IN  IF IsAlias(v)
        THEN LET t == S.vars[v.id].valuesByMode
             IN  IF modeId <= Len(t) THEN t[modeId] ELSE t[1]
        ELSE v

\* run r has made all its store writes, and its generation succeeded
Succeeded(r) == runs[r].pc \in {"notify", "return", "done"} /\ runs[r].err = ""

\* run r started when no other run had writes ahead of it
StartedAlone(r) == runs[r].concurrent = {}

\* run r succeeded, started alone, and no run has started since
LastAlone(r) == r = Len(runs) /\ StartedAlone(r) /\ Succeeded(r)

\* the value of the variable `path` of the collection named coll, in mode m
ValueAt(coll, path, m) ==
    vars[FindVariable(Begin, FindCollection(Begin, coll), path)].valuesByMode[m]

\* the variables of collection c
VarsOf(c) == {id \in 1..Len(vars) : vars[id].coll = c}

\* C1: a step of a generate-theme run deletes nothing and re-creates nothing:
\* every collection and every variable keeps its id, name and collection, and a
\* variable is created only under a name its collection does not hold yet.
C1_NothingDeletedNothingRecreated ==
    [][/\ Len(colls') >= Len(colls)
       /\ \A c \in 1..Len(colls) : colls'[c].name = colls[c].name
       /\ Len(vars') >= Len(vars)
       /\ \A id \in 1..Len(vars) :
             /\ vars'[id].name = vars[id].name
             /\ vars'[id].coll = vars[id].coll
             /\ \E k \in 1..Len(colls'[vars[id].coll].variableIds) :
                   colls'[vars[id].coll].variableIds[k] = id
       /\ \A id \in (Len(vars) + 1)..Len(vars') :
             \A other \in 1..Len(vars') :
                 (other # id /\ vars'[other].coll = vars'[id].coll)
                     => vars'[other].name # vars'[id].name]_allVars

\* two runs have succeeded one after the other; the second wrote to the store,
\* which holds three collections and each variable name once
C1_Witness ==
    /\ Len(runs) = 2
    /\ Succeeded(1) /\ Succeeded(2) /\ StartedAlone(2)
    /\ runs[2].writes > 0
    /\ Len(colls) = 3
    /\ Cardinality({<<vars[id].coll, vars[id].name>> : id \in 1..Len(vars)}) = Len(vars)

\* C2: the id a consumer took for Theme "Background/Main" after the first
\* successful run keeps naming that variable of Theme; in Light it resolves to
\* the literal Base Colors/Neutral/90 holds and in Dark to that of
\* Colors/Neutral/15, which are the tones 90 and 15 of the neutral base of the
\* latest run that wrote Base.
C2_HeldReferenceStaysValid ==
    held # 0 =>
        /\ held \in 1..Len(vars)
        /\ vars[held].name = <<"Background", "Main">>
        /\ colls[vars[held].coll].name = "Theme"
        /\ LET theme == vars[held].coll
               light == Resolve(Begin, held, FindMode(Begin, theme, "Light"))
               dark == Resolve(Begin, held, FindMode(Begin, theme, "Dark"))
           IN  /\ light = ValueAt("Base", <<"Colors", "Neutral", "90">>, 1)
               /\ dark = ValueAt("Base", <<"Colors", "Neutral", "15">>, 1)
               /\ \A r \in 1..Len(runs) :
                      (r = Len(runs) /\ runs[r].failedIn \notin {"derive", "base"})
                      => /\ light = RGB(HexTone(NeutralBase(runs[r].req), 90))
                         /\ dark = RGB(HexTone(NeutralBase(runs[r].req), 15))

\* the id was taken after run 1, and run 2, with another neutral base, has
\* succeeded on its own
C2_Witness ==
    /\ held # 0
    /\ Len(runs) = 2
    /\ Succeeded(1) /\ LastAlone(2)
    /\ NeutralBase(runs[1].req) # NeutralBase(runs[2].req)

\* C3: a run that repeats, on its own, the request of the successful run before
\* it, with the same fonts loaded, leaves the store exactly as that run left it.
C3_RegenerationIsIdempotent ==
    [][\A r \in 2..Len(runs) :
          ( /\ runs[r].pc = "bridge" /\ runs'[r].pc = "notify"
            /\ r = Len(runs)
            /\ snap.run = r - 1
            /\ StartedAlone(r - 1) /\ StartedAlone(r)
            /\ runs[r].req = runs[r - 1].req
            /\ runs[r].loadedFonts = runs[r - 1].loadedFonts )
          => /\ colls' = snap.colls
             /\ vars' = snap.vars]_allVars

\* run 2 repeated the request of run 1 and has just completed its writes
C3_Witness ==
    /\ Len(runs) = 2
    /\ snap.run = 2
    /\ Succeeded(1) /\ LastAlone(2)
    /\ runs[2].req = runs[1].req
    /\ runs[2].writes > 0

\* createFigmaVariables(req) run from entry to exit with no other handler between
\* its steps (lines 752-765), on a store that rejects nothing
createFigmaVariables(S, req) ==
    LET S0 == [S EXCEPT !.err = "", !.n = 0, !.fuse = -1]
        baseCollection == CollectionId(S0, "Base")
        T1 == createBaseCollection(S0, Colors(req), HexLit(req.hex), NeutralBase(req), req)
        T2 == TypographyLoop(T1, baseCollection, 1, LoadedFonts(FontLoads(req, 1)), 1)
        themeCollection == CollectionId(T2, "Theme")
        T3 == createThemeCollection(T2, baseCollection, Arg(req, "cornerRadiusLevel", 3))
    IN  createBridgeCollection(T3, themeCollection,
                               Arg(req, "modalBackgroundEnabled", TRUE),
                               Arg(req, "modalPaddingSize", "2"),
                               Arg(req, "headerIconsPairingEnabled", TRUE),
                               Arg(req, "headerBackgroundEnabled", FALSE))

Fresh == [colls |-> <<>>, vars |-> <<>>, fuse |-> -1, err |-> "", n |-> 0]

\* the handlers of the runs order[i], order[i+1], ... processed one after the other
RECURSIVE Serial(_, _, _)
Serial(S, order, i) ==
    IF i > Len(runs) THEN S
    ELSE Serial(createFigmaVariables(S, runs[order[i]].req), order, i + 1)

\* a value told without ids: an alias by the collection and name of its target
ValueView(S, v) ==
    IF IsAlias(v)
    THEN [type |-> "VARIABLE_ALIAS", coll |-> S.colls[S.vars[v.id].coll].name,
          name |-> S.vars[v.id].name]
    ELSE v

\* what a store holds, told without ids
View(S) ==
    [collections |-> {[name |-> S.colls[c].name, modes |-> S.colls[c].modes] :
                         c \in 1..Len(S.colls)},
     variables |-> {[coll |-> S.colls[S.vars[id].coll].name,
                     name |-> S.vars[id].name,
                     type |-> S.vars[id].type,
                     scopes |-> S.vars[id].scopes,
                     values |-> [m \in 1..Len(S.vars[id].valuesByMode) |->
                                    ValueView(S, S.vars[id].valuesByMode[m])]] :
                       id \in 1..Len(S.vars)}]

\* C4: when every generate-theme handler has returned and every run succeeded,
\* the store is what processing the requests one after the other, in some
\* order, leaves.
C4_FinalStoreIsSerial ==
    ( /\ Len(runs) >= 2
      /\ \A r \in 1..Len(runs) : runs[r].pc = "done" /\ runs[r].err = "" )
    => \E order \in Permutations(1..Len(runs)) :
           View(Begin) = View(Serial(Fresh, order, 1))

\* C5: a generate-theme run that ends in a colour conversion error has not
\* changed the store.
C5_ValidateThenWrite ==
    [][\A r \in 1..Len(runs') :
          (r > Len(runs) /\ runs'[r].err = "InvalidColorFormat")
          => (colls' = colls /\ vars' = vars)]_allVars

\* C6: when the store rejects a write of a run, the rejected write is the last
\* store call of its step and no later step of the run changes the store (a
\* sole run that failed building Base leaves no Theme and no Bridge); what the
\* run wrote before stays (its primary colour in Base, when it got as far as
\* Theme); and the run shows one failure notification and no success.
C6_StoreRejectionAborts ==
    /\ [](\A r \in 1..Len(runs) :
            runs[r].err = "CollectionWriteFailure" =>
                /\ (Len(runs) = 1 /\ runs[r].failedIn = "base")
                       => /\ FindCollection(Begin, "Theme") = 0
                          /\ FindCollection(Begin, "Bridge") = 0
                /\ (r = Len(runs) /\ runs[r].failedIn \in {"theme", "bridge"})
                       => ValueAt("Base", <<"Colors", "Primary", "Base">>, 1)
                              = RGB(HexLit(runs[r].req.hex))
                /\ runs[r].pc = "catch"
                       => /\ CopiesIn([run |-> r, error |-> TRUE], notes) = 0
                          /\ CopiesIn([run |-> r, error |-> FALSE], notes) = 0
                /\ runs[r].pc \in {"return", "done"}
                       => /\ CopiesIn([run |-> r, error |-> TRUE], notes) = 1
                          /\ CopiesIn([run |-> r, error |-> FALSE], notes) = 0)
    /\ [][\A r \in 1..Len(runs') :
            IF r <= Len(runs) /\ runs[r].err = "CollectionWriteFailure"
            THEN runs'[r] # runs[r] => (colls' = colls /\ vars' = vars)
            ELSE runs'[r].err = "CollectionWriteFailure"
                 => /\ fuse >= 0
                    /\ runs'[r].writes
                         = fuse + (IF r <= Len(runs) THEN runs[r].writes ELSE 0)]_allVars

\* the store rejected a write of the latest run while it built Theme; the run has
\* returned, and Base holds what it wrote
C6_Witness ==
    \E r \in 1..Len(runs) :
        /\ r = Len(runs)
        /\ runs[r].err = "CollectionWriteFailure"
        /\ runs[r].failedIn = "theme"
        /\ runs[r].pc = "done"
        /\ runs[r].writes > 0
        /\ FindCollection(Begin, "Theme") # 0

\* variable id belongs to the collection named coll
InColl(id, coll) == colls[vars[id].coll].name = coll

\* variable id holds no alias in any mode
HoldsLiterals(id) ==
    \A m \in 1..Len(vars[id].valuesByMode) : ~IsAlias(vars[id].valuesByMode[m])

\* variable id is a Base variable that holds literals
BaseLeaf(id) == id \in 1..Len(vars) /\ InColl(id, "Base") /\ HoldsLiterals(id)

\* the alias values in the store, each with the variable that holds it
AliasesHeld ==
    UNION {{[holder |-> id, target |-> vars[id].valuesByMode[m].id] :
               m \in {k \in 1..Len(vars[id].valuesByMode) :
                         IsAlias(vars[id].valuesByMode[k])}} :
           id \in 1..Len(vars)}

\* C7 as stated: the target of every alias a Theme or Bridge variable holds is a
\* Base variable that holds a literal.
C7_EveryAliasIsOneHop ==
    \A a \in AliasesHeld :
        (InColl(a.holder, "Theme") \/ InColl(a.holder, "Bridge")) => BaseLeaf(a.target)

\* C7, amended: only Theme and Bridge variables hold aliases; a Theme alias, and
\* the alias of Bridge Modal/Padding, targets a Base variable that holds a
\* literal; the aliases of Bridge Modal/Background and Header/Background target
\* the Theme variables Background/Main and Misc/Divider, which hold in every
\* mode an alias to a Base variable that holds a literal (two hops).
C7_AliasesEndInBaseWithinTwoHops ==
    \A a \in AliasesHeld :
        \/ InColl(a.holder, "Theme") /\ BaseLeaf(a.target)
        \/ /\ InColl(a.holder, "Bridge")
           /\ vars[a.holder].name = <<"Modal", "Padding">>
           /\ BaseLeaf(a.target)
        \/ /\ InColl(a.holder, "Bridge")
           /\ a.target \in 1..Len(vars)
           /\ InColl(a.target, "Theme")
           /\ <<vars[a.holder].name, vars[a.target].name>>
                  \in {<<<<"Modal", "Background">>, <<"Background", "Main">>>>,
                       <<<<"Header", "Background">>, <<"Misc", "Divider">>>>}
           /\ \A m \in 1..Len(vars[a.target].valuesByMode) :
                  /\ IsAlias(vars[a.target].valuesByMode[m])
                  /\ BaseLeaf(vars[a.target].valuesByMode[m].id)

\* the store holds a one-hop alias of Bridge (Modal/Padding to Base) and a
\* two-hop one (Modal/Background or Header/Background to Theme)
C7_Witness ==
    /\ \E a \in AliasesHeld : InColl(a.holder, "Bridge") /\ InColl(a.target, "Theme")
    /\ \E a \in AliasesHeld : InColl(a.holder, "Bridge") /\ InColl(a.target, "Base")
    /\ \E a \in AliasesHeld : InColl(a.holder, "Theme")

\* C8: every Base variable has one mode, and in it a literal: a colour, a number
\* or a string the run wrote, or the literal the host gave it at creation.
C8_BaseHoldsLiterals ==
    \A id \in 1..Len(vars) :
        InColl(id, "Base") =>
            /\ Len(vars[id].valuesByMode) = 1
            /\ vars[id].valuesByMode[1].type \in {"RGB", "RGBA", "FLOAT", "STRING", "DEFAULT"}
            /\ ~IsAlias(vars[id].valuesByMode[1])

\* a run has succeeded, and Base holds colours, translucent colours, numbers and
\* strings
C8_Witness ==
    /\ \E r \in 1..Len(runs) : Succeeded(r)
    /\ \A t \in {"RGB", "RGBA", "FLOAT", "STRING"} :
           \E id \in 1..Len(vars) : InColl(id, "Base") /\ vars[id].valuesByMode[1].type = t

\* the Theme variables the source lists for every corner level
fixedAliases == themeAliases \o miscAliases

\* C9: once a run has succeeded, Theme has the modes Light and Dark, each of its
\* variables holds in both an alias to a variable of Base, and each variable the
\* source lists aliases the Base variables listed for it in Light and in Dark
\* (Background/Main: Colors/Neutral/90 and Colors/Neutral/15).
C9_ThemeFullyAliased ==
    (\E r \in 1..Len(runs) : Succeeded(r)) =>
        LET theme == FindCollection(Begin, "Theme")
            base == FindCollection(Begin, "Base")
        IN  /\ theme # 0 /\ base # 0
            /\ colls[theme].modes = <<"Light", "Dark">>
            /\ \A id \in VarsOf(theme) :
                   /\ Len(vars[id].valuesByMode) = 2
                   /\ \A m \in 1..2 :
                          /\ IsAlias(vars[id].valuesByMode[m])
                          /\ vars[id].valuesByMode[m].id \in VarsOf(base)
            /\ \A k \in 1..Len(fixedAliases) :
                   LET a == fixedAliases[k]
                       id == FindVariable(Begin, theme, a.path)
                   IN  /\ id # 0
                       /\ FindVariable(Begin, base, a.light) # 0
                       /\ FindVariable(Begin, base, a.dark) # 0
                       /\ vars[id].valuesByMode[1] = Alias(FindVariable(Begin, base, a.light))
                       /\ vars[id].valuesByMode[2] = Alias(FindVariable(Begin, base, a.dark))
            /\ vars[ValueAt("Theme", <<"Background", "Main">>, 1).id].name
                   = <<"Colors", "Neutral", "90">>
            /\ vars[ValueAt("Theme", <<"Background", "Main">>, 2).id].name
                   = <<"Colors", "Neutral", "15">>

\* a run has succeeded and Theme holds a variable for every alias of the source
C9_Witness ==
    /\ \E r \in 1..Len(runs) : Succeeded(r)
    /\ FindCollection(Begin, "Theme") # 0
    /\ Cardinality(VarsOf(FindCollection(Begin, "Theme"))) >= Len(fixedAliases)

\* the mode list of the collection named coll, <<>> when there is none
ModesOf(coll) ==
    IF FindCollection(Begin, coll) = 0 THEN <<>> ELSE colls[FindCollection(Begin, coll)].modes

\* C10: no run ever raises DuplicateMode; Base and Bridge never have a mode
\* besides their first and Theme never one besides Light and Dark; and once a
\* run has built a collection its mode list is [Caldera], [Light, Dark],
\* [Default], whatever number of runs follow.
C10_ModeLists ==
    /\ \A r \in 1..Len(runs) : runs[r].err # "DuplicateMode"
    /\ ModesOf("Base") \in {<<>>, <<"Mode 1">>, <<"Caldera">>}
    /\ ModesOf("Theme") \in {<<>>, <<"Mode 1">>, <<"Light">>, <<"Light", "Dark">>}
    /\ ModesOf("Bridge") \in {<<>>, <<"Mode 1">>, <<"Default">>}
    /\ \A r \in 1..Len(runs) :
           /\ runs[r].failedIn \notin {"derive", "base"} => ModesOf("Base") = <<"Caldera">>
           /\ (runs[r].themeCollection # 0 /\ runs[r].failedIn # "theme")
                  => ModesOf("Theme") = <<"Light", "Dark">>
           /\ Succeeded(r) => ModesOf("Bridge") = <<"Default">>

\* two runs have succeeded, the second after the first had built Theme
C10_Witness ==
    /\ Len(runs) = 2
    /\ Succeeded(1) /\ Succeeded(2)
    /\ ModesOf("Theme") = <<"Light", "Dark">>
    /\ ModesOf("Base") = <<"Caldera">>
    /\ ModesOf("Bridge") = <<"Default">>

\* the ids collection c lists
IdsOf(c) == ToSet(colls[c].variableIds)

\* C11: at most one collection is named Base, one Theme and one Bridge, and no
\* two variables a collection lists have the same name, in every state, also
\* while generate-theme runs overlap at their font-loading awaits.
C11_NamesAreUnique ==
    /\ \A c, d \in 1..Len(colls) : colls[c].name = colls[d].name => c = d
    /\ \A c \in 1..Len(colls) :
           /\ colls[c].name \in {"Base", "Theme", "Bridge"}
           /\ Cardinality(IdsOf(c)) = Len(colls[c].variableIds)
           /\ \A i, j \in IdsOf(c) : vars[i].name = vars[j].name => i = j

\* two runs overlapped at their font loads, both wrote typography and both
\* succeeded
C11_Witness ==
    /\ Len(runs) = 2
    /\ 1 \in runs[2].concurrent
    /\ Succeeded(1) /\ Succeeded(2)
    /\ runs[1].loadedFonts # NoFonts /\ runs[2].loadedFonts # NoFonts
    /\ \E id \in 1..Len(vars) : vars[id].name = <<"Typography", "Display", "Font">>

(***************************************************************************)
(* A second specification: one handler at a time, a store that rejects     *)
(* nothing, requests over the whole range of the options, more font        *)
(* environments, and a user who edits the document while the plugin awaits.*)
(***************************************************************************)
\* corner level 0, no modal, padding "4", a header background, a Display override
WideFlat ==
    [DefaultRequest EXCEPT !.hex = "#CC3366", !.cornerRadiusLevel = 0,
                           !.fontOverrides = [NoOverrides EXCEPT
                               !.Display = [family |-> "Roboto", style |-> "Bold"]],
                           !.modalBackgroundEnabled = FALSE, !.modalPaddingSize = "4",
                           !.headerIconsPairingEnabled = FALSE,
                           !.headerBackgroundEnabled = TRUE, !.absent = {}]

\* corner level 4, a modal with padding "0", a header background
WideRound ==
    [DefaultRequest EXCEPT !.cornerRadiusLevel = 4, !.modalBackgroundEnabled = TRUE,
                           !.modalPaddingSize = "0", !.headerIconsPairingEnabled = TRUE,
                           !.headerBackgroundEnabled = TRUE, !.absent = {}]

\* a corner level outside 0..4, a modal with padding "4", a Header override of
\* a family only
WideOutOfRange ==
    [DefaultRequest EXCEPT !.cornerRadiusLevel = 7, !.modalBackgroundEnabled = TRUE,
                           !.modalPaddingSize = "4", !.headerIconsPairingEnabled = FALSE,
                           !.headerBackgroundEnabled = FALSE,
                           !.fontOverrides = [NoOverrides EXCEPT
                               !.Header = [family |-> "Roboto", style |-> ""]],
                           !.absent = {}]

\* a padding size Base has no Spacing variable for
WideNoSuchSpacing ==
    [DefaultRequest EXCEPT !.cornerRadiusLevel = 1, !.modalPaddingSize = "13",
                           !.absent = {"modalBackgroundEnabled", "headerIconsPairingEnabled",
                                       "headerBackgroundEnabled"}]

\* a neutral seed and a Warning override of the user, a Header font that loads
\* where Inter SemiBold and Inter Regular do not
WideOverrides ==
    [DefaultRequest EXCEPT !.neutralHex = "#808080", !.warningHex = "#996600",
                           !.fontOverrides = [NoOverrides EXCEPT
                               !.Header = [family |-> "Inter", style |-> "Bold"]]]

RequestsWide ==
    {ReqA, WideFlat, WideRound, WideOutOfRange, WideNoSuchSpacing, WideOverrides,
     ReqBadFailure}

\* every font; Inter Bold only; Inter Regular only
FontEnvsWide ==
    {AllFonts, {[family |-> "Inter", style |-> "Bold"]},
     {[family |-> "Inter", style |-> "Regular"]}}

\* the Spacing variables the user may remove
Removable == {"0", "4"}

\* no handler is running: each has returned or stopped at its uncaught error
Idle == \A r \in 1..Len(runs) : runs[r].pc \in {"done", "rejected"}

\* the user removes Base Spacing/<n> in Figma while a handler awaits its font
\* loads: the collection no longer lists the variable
UserRemoves(n) ==
    /\ \E r \in 1..Len(runs) : runs[r].pc = "font"
    /\ LET base == FindCollection(Begin, "Base")
           id == FindVariable(Begin, base, <<"Spacing", n>>)
       IN  /\ id # 0
           /\ colls' = [colls EXCEPT ![base].variableIds = SelectSeq(@, LAMBDA x : x # id)]
    /\ UNCHANGED <<vars, fuse, available, runs, posted, notes, held, snap, cancelled>>

InitWide ==
    /\ colls = <<>>
    /\ vars = <<>>
    /\ fuse = -1
    /\ available \in FontEnvsWide
    /\ runs = <<>>
    /\ posted = EmptyBag
    /\ notes = EmptyBag
    /\ held = 0
    /\ snap = NoSnap
    /\ cancelled = FALSE

NextWide ==
    \/ \E req \in RequestsWide : Idle /\ GenerateTheme(req)
    \/ \E n \in Removable : UserRemoves(n)
    \/ \E r \in 1..Len(runs) : FontsSettled(r)
    \/ \E r \in 1..Len(runs) : Theme(r)
    \/ \E r \in 1..Len(runs) : Bridge(r)
    \/ \E r \in 1..Len(runs) : Succeed(r)
    \/ \E r \in 1..Len(runs) : Catch(r)
    \/ \E r \in 1..Len(runs) : Return(r)

SpecWide == InitWide /\ [][NextWide]_allVars

\* run r is the latest, and it has built Theme
BuiltTheme(r) ==
    r = Len(runs) /\ runs[r].err = "" /\ runs[r].pc \in {"bridge", "notify", "return", "done"}

cornerNames == <<"None", "XS", "SM", "Base", "LG", "XL">>

\* the Base corners the six Theme corners are to alias at a level: None for
\* all at 0, the largest radii at 4, the radii of level 3 when the level is 3,
\* outside 0..4 or absent (levels 1 and 2: not stated)
CornerTargets(req) ==
    LET deflt == <<"2", "4", "8", "16", "24", "48">>
    IN  IF "cornerRadiusLevel" \in req.absent THEN deflt
        ELSE CASE req.cornerRadiusLevel = 0 -> <<"None", "None", "None", "None", "None", "None">>
               [] req.cornerRadiusLevel = 4 -> <<"2", "8", "16", "24", "48", "96">>
               [] req.cornerRadiusLevel \in {1, 2} -> <<>>
               [] OTHER -> deflt

\* the Base variable Corners/<name>, 0 when Base lists none
BaseCorner(name) == FindVariable(Begin, FindCollection(Begin, "Base"), <<"Corners", name>>)

\* C12: once the latest run has built Theme, Theme Corners/Circle aliases Base
\* Corners/Circle in both modes, and Theme Corners/None, XS, SM, Base, LG, XL
\* alias the Base corners of the run's level: Corners/None at level 0,
\* Corners/2, 8, 16, 24, 48, 96 at level 4, and Corners/2, 4, 8, 16, 24, 48 at
\* level 3, at a level outside 0..4 and without a level.
C12_CornerLevels ==
    \A r \in 1..Len(runs) :
        BuiltTheme(r) =>
            /\ BaseCorner("Circle") # 0
            /\ \A m \in 1..2 :
                   ValueAt("Theme", <<"Corners", "Circle">>, m) = Alias(BaseCorner("Circle"))
            /\ \A k \in 1..Len(CornerTargets(runs[r].req)) :
                   /\ BaseCorner(CornerTargets(runs[r].req)[k]) # 0
                   /\ \A m \in 1..2 :
                          ValueAt("Theme", <<"Corners", cornerNames[k]>>, m)
                              = Alias(BaseCorner(CornerTargets(runs[r].req)[k]))

\* a run at level 4 was followed by a run at level 7, which has built Theme
C12_Witness ==
    /\ Len(runs) = 2
    /\ runs[1].req.cornerRadiusLevel = 4 /\ Succeeded(1)
    /\ runs[2].req.cornerRadiusLevel = 7 /\ BuiltTheme(2)

\* the Theme variable `path`, 0 when Theme lists none
ThemeVar(path) ==
    IF FindCollection(Begin, "Theme") = 0 THEN 0
    ELSE FindVariable(Begin, FindCollection(Begin, "Theme"), path)

\* C13: once a run has succeeded, Theme holds Status/Error/Main, Foreground,
\* Light and Dark, each with the values of the Status/Failure variable of the
\* same name.
C13_LegacyErrorMirror ==
    (\E r \in 1..Len(runs) : Succeeded(r)) =>
        \A leaf \in {"Main", "Foreground", "Light", "Dark"} :
            /\ ThemeVar(<<"Status", "Failure", leaf>>) # 0
            /\ ThemeVar(<<"Status", "Error", leaf>>) # 0
            /\ vars[ThemeVar(<<"Status", "Error", leaf>>)].valuesByMode
                   = vars[ThemeVar(<<"Status", "Failure", leaf>>)].valuesByMode

\* run r is the latest and it has succeeded: the store is as its Bridge left it
LatestSucceeded(r) == r = Len(runs) /\ Succeeded(r)

\* the value of the Bridge variable `path` in the Default mode
BridgeValue(path) == ValueAt("Bridge", path, 1)

\* the colour r = 0, g = 0, b = 0, a = 0
Transparent == [type |-> "RGBA", hex |-> [kind |-> "lit", str |-> "#000000"], a |-> 0]

\* C14: once the latest run has succeeded, Bridge Modal/Background is an alias
\* to Theme Background/Main when that run's request enables the modal (the
\* default when the flag is left out) and the transparent colour when it
\* disables it, whatever earlier runs wrote.
C14_ModalBackground ==
    \A r \in 1..Len(runs) :
        LatestSucceeded(r) =>
            IF Arg(runs[r].req, "modalBackgroundEnabled", TRUE)
            THEN /\ ThemeVar(<<"Background", "Main">>) # 0
                 /\ BridgeValue(<<"Modal", "Background">>)
                        = Alias(ThemeVar(<<"Background", "Main">>))
            ELSE BridgeValue(<<"Modal", "Background">>) = Transparent

\* a run that enabled the modal was followed by one that disabled it
C14_Witness ==
    /\ Len(runs) = 2
    /\ Succeeded(1) /\ runs[1].req.modalBackgroundEnabled
    /\ LatestSucceeded(2) /\ ~runs[2].req.modalBackgroundEnabled
    /\ "modalBackgroundEnabled" \notin runs[2].req.absent

\* the sizes of the fallback table, in order: size k-1 stands for 8 * (k-1)
paddingSizes == <<"0", "1", "2", "3", "4", "5", "6", "7", "8", "9", "10", "11", "12">>

\* C15: once the latest run has succeeded, Bridge Modal/Padding is the literal
\* 0 when the request disables the modal; an alias to Base Spacing/<size> when
\* it enables it and Base lists that variable; and, when Base does not list
\* it, the literal 8 * size for the sizes "0" to "12".
C15_ModalPadding ==
    \A r \in 1..Len(runs) :
        LatestSucceeded(r) =>
            LET size == Arg(runs[r].req, "modalPaddingSize", "2")
                target == FindVariable(Begin, FindCollection(Begin, "Base"),
                                       <<"Spacing", size>>)
                value == BridgeValue(<<"Modal", "Padding">>)
            IN  IF ~Arg(runs[r].req, "modalBackgroundEnabled", TRUE)
                THEN value = Float(0)
                ELSE IF target # 0 THEN value = Alias(target)
                ELSE \A k \in 1..Len(paddingSizes) :
                         paddingSizes[k] = size => value = Float(8 * (k - 1))

\* C16: once the latest run has succeeded, Bridge Header/Background is an alias
\* to Theme Misc/Divider when that run's request enables the header background
\* and the transparent colour otherwise (also when the flag is left out), and
\* Header/Icons Pairing holds the request's headerIconsPairingEnabled (true
\* when left out) as a literal.
C16_HeaderTokens ==
    \A r \in 1..Len(runs) :
        LatestSucceeded(r) =>
            /\ IF Arg(runs[r].req, "headerBackgroundEnabled", FALSE)
               THEN /\ ThemeVar(<<"Misc", "Divider">>) # 0
                    /\ BridgeValue(<<"Header", "Background">>)
                           = Alias(ThemeVar(<<"Misc", "Divider">>))
               ELSE BridgeValue(<<"Header", "Background">>) = Transparent
            /\ BridgeValue(<<"Header", "Icons Pairing">>)
                   = [type |-> "BOOLEAN",
                      bool |-> Arg(runs[r].req, "headerIconsPairingEnabled", TRUE)]

\* a run with a header background and icons pairing was followed by one with
\* neither
C16_Witness ==
    /\ Len(runs) = 2
    /\ Succeeded(1) /\ runs[1].req = WideRound
    /\ LatestSucceeded(2) /\ runs[2].req = WideOutOfRange

\* the attempts run r made for a role, in the order it made them
AttemptsOf(r, role) == SelectSeq(runs[r].tried, LAMBDA a : a.role = role)

\* the k-th link of a role's chain: the override (a part it leaves out taken
\* from the role's default); the role's default; Inter Regular
ChainLink(req, role, k) ==
    LET deflt == CASE role = "Display" -> [family |-> "Inter", style |-> "Bold"]
                   [] role = "Header" -> [family |-> "Inter", style |-> "SemiBold"]
                   [] role = "Primary" -> [family |-> "Inter", style |-> "Regular"]
                   [] role = "Data" -> [family |-> "Space Mono", style |-> "Regular"]
        over == req.fontOverrides[role]
    IN  CASE k = 1 -> [family |-> IF over.family = "" THEN deflt.family ELSE over.family,
                       style |-> IF over.style = "" THEN deflt.style ELSE over.style]
          [] k = 2 -> deflt
          [] OTHER -> [family |-> "Inter", style |-> "Regular"]

\* the first attempt of run r for a role that loaded, 0 when none did
FirstLoaded(r, role) ==
    LET hits == {k \in 1..Len(AttemptsOf(r, role)) : AttemptsOf(r, role)[k].ok}
    IN  IF hits = {} THEN 0 ELSE MinOf(hits)

\* the Base variable Typography/<role>/<leaf> of store S, 0 when Base lists none
TypographyVar(S, role, leaf) ==
    IF FindCollection(S, "Base") = 0 THEN 0
    ELSE FindVariable(S, FindCollection(S, "Base"), <<"Typography", role, leaf>>)

\* the store the latest successful generation left
Snap == [colls |-> snap.colls, vars |-> snap.vars, fuse |-> -1, err |-> "", n |-> 0]

\* the typography variables are as the latest successful generation left them
\* (none when there was none)
TypographyUntouched(role) ==
    \A leaf \in {"Font", "Style"} :
        IF snap.run = 0 THEN TypographyVar(Begin, role, leaf) = 0
        ELSE /\ TypographyVar(Begin, role, leaf) = TypographyVar(Snap, role, leaf)
             /\ TypographyVar(Begin, role, leaf) # 0
                    => vars[TypographyVar(Begin, role, leaf)]
                           = snap.vars[TypographyVar(Begin, role, leaf)]

\* C17: whatever a run has attempted for a role is one to three loads, the k-th
\* of the k-th link of the chain (override, role default, Inter Regular), each
\* but the last failed, and fewer than three only when the last loaded; once
\* the latest run has written its typography, Typography/<role>/Font and
\* /Style hold the family and style of the first link that loaded; and while
\* the latest run awaits its loads the typography variables are untouched.
C17_FontFallbackChain ==
    \A r \in 1..Len(runs) : \A role \in ToSet(typographyTypes) :
        /\ runs[r].tried # <<>> =>
               LET tries == AttemptsOf(r, role)
               IN  /\ Len(tries) \in 1..3
                   /\ \A k \in 1..Len(tries) :
                          /\ tries[k].font = ChainLink(runs[r].req, role, k)
                          /\ tries[k].ok = (tries[k].font \in available)
                          /\ k < Len(tries) => ~tries[k].ok
                   /\ Len(tries) < 3 => tries[Len(tries)].ok
        /\ ( /\ r = Len(runs) /\ runs[r].err = ""
             /\ runs[r].pc \in {"theme", "bridge", "notify", "return", "done"}
             /\ FirstLoaded(r, role) # 0 )
           => LET font == AttemptsOf(r, role)[FirstLoaded(r, role)].font
              IN  /\ TypographyVar(Begin, role, "Font") # 0
                  /\ TypographyVar(Begin, role, "Style") # 0
                  /\ vars[TypographyVar(Begin, role, "Font")].valuesByMode
                         = <<[type |-> "STRING", str |-> font.family]>>
                  /\ vars[TypographyVar(Begin, role, "Style")].valuesByMode
                         = <<[type |-> "STRING", str |-> font.style]>>
        /\ (r = Len(runs) /\ runs[r].pc = "font") =>
               /\ runs[r].tried = <<>>
               /\ TypographyUntouched(role)

\* the latest run went through the three links for Display (its override and
\* the role default failed, Inter Regular loaded) and has written its typography
C17_Witness ==
    \E r \in 1..Len(runs) :
        /\ LatestSucceeded(r)
        /\ runs[r].req.fontOverrides.Display.family = "Roboto"
        /\ Len(AttemptsOf(r, "Display")) = 3
        /\ FirstLoaded(r, "Display") = 3
        /\ TypographyVar(Begin, "Display", "Font") # 0

\* every attempt of run r for the role failed
Exhausted(r, role) == runs[r].tried # <<>> /\ FirstLoaded(r, role) = 0

\* C18: a run that has exhausted the chain of a role goes on and fails nowhere;
\* until its generation completes, the role's Typography variables are as the
\* earlier generation left them (absent when there was none); and once the
\* run has returned, the typography of every role that loaded, Theme and Bridge
\* are written and generation-complete has been posted for it.
C18_ExhaustedChainSkipsRole ==
    \A r \in 1..Len(runs) : \A role \in ToSet(typographyTypes) :
        Exhausted(r, role) =>
            /\ runs[r].err = ""
            /\ runs[r].pc \in {"theme", "bridge", "notify", "return", "done"}
            /\ (r = Len(runs) /\ runs[r].pc \in {"theme", "bridge"})
                   => TypographyUntouched(role)
            /\ Len(runs) = 1
                   => /\ TypographyVar(Begin, role, "Font") = 0
                      /\ TypographyVar(Begin, role, "Style") = 0
            /\ (r = Len(runs) /\ runs[r].pc = "done") =>
                   /\ \A other \in ToSet(typographyTypes) :
                          FirstLoaded(r, other) # 0
                              => /\ TypographyVar(Begin, other, "Font") # 0
                                 /\ TypographyVar(Begin, other, "Style") # 0
                   /\ ThemeVar(<<"Brand">>) # 0
                   /\ IsAlias(ValueAt("Theme", <<"Brand">>, 1))
                   /\ BridgeValue(<<"Header", "Icons Pairing">>).type = "BOOLEAN"
                   /\ CopiesIn([type |-> "generation-complete", run |-> r], posted) >= 1
                   /\ CopiesIn([run |-> r, error |-> TRUE], notes) = 0

\* the first run loaded a font for Display, exhausted the chain of Header, and
\* has returned
C18_Witness ==
    /\ Len(runs) = 1
    /\ runs[1].pc = "done"
    /\ FirstLoaded(1, "Display") # 0
    /\ Exhausted(1, "Header")
    /\ Len(AttemptsOf(1, "Header")) = 3

(***************************************************************************)
(* exportThemeAsJson (lines 781-998).  The exported object is kept as its   *)
(* leaves in insertion order, each under the path of keys that leads to it; *)
(* a $value is a tagged JSON value.                                         *)
(***************************************************************************)
JNum(n) == [fmt |-> "number", num |-> n]
JStr(s) == [fmt |-> "string", str |-> s]
JBool(b) == [fmt |-> "boolean", bool |-> b]
\* a string "{A.B.C}", kept as the pieces between its dots
JRef(pieces) == [fmt |-> "reference", pieces |-> pieces]

\* the digits r.toString(16) gives for the bytes a hex string parses to: lower
\* case (the hex strings of the colour library are lower case already)
LowerHex(str) ==
    CASE str = "#FFFFFF" -> "#ffffff"
      [] str = "#3366CC" -> "#3366cc"
      [] str = "#CC3366" -> "#cc3366"
      [] OTHER -> str

\* toHex(Math.round(r * 255), ...) of the colour hexToFigmaColor made of hex
toHex(hex) ==
    [fmt |-> "hex", hex |-> IF hex.kind = "lit" THEN HexLit(LowerHex(hex.str)) ELSE hex]

\* toRgbaString: the alpha, a whole number of percent, keeps its two decimals
toRgbaString(hex, pct) == [fmt |-> "rgba", hex |-> toHex(hex).hex, a |-> pct]

\* valueStr of lines 821-825; a variable never written holds the host's white
ColorString(modeValue) ==
    CASE modeValue.type = "RGBA" /\ modeValue.a < 100 ->
             toRgbaString(modeValue.hex, modeValue.a)
      [] modeValue.type \in {"RGB", "RGBA"} -> toHex(modeValue.hex)
      [] OTHER -> toHex(HexLit("#FFFFFF"))

\* a number or string value as JSON.stringify writes it
JsonOf(modeValue) ==
    CASE modeValue.type = "FLOAT" -> JNum(modeValue.num)
      [] modeValue.type = "STRING" -> JStr(modeValue.str)
      [] modeValue.type = "BOOLEAN" -> JBool(modeValue.bool)
      [] OTHER -> [fmt |-> "object", of |-> modeValue]

IsPrefix(p, q) == Len(p) <= Len(q) /\ SubSeq(q, 1, Len(p)) = p

\* current[key] = leaf at the end of a walk along path: an object already
\* there is replaced where it stands, with all it held
SetLeaf(tree, path, leaf) ==
    LET at == {i \in 1..Len(tree) : tree[i].path = path}
        kept == SelectSeq(tree, LAMBDA e : ~(IsPrefix(path, e.path) /\ e.path # path))
        atKept == {i \in 1..Len(kept) : kept[i].path = path}
    IN  IF at = {} THEN Append(kept, [path |-> path, leaf |-> leaf])
        ELSE [i \in 1..Len(kept) |->
                 IF i \in atKept THEN [path |-> path, leaf |-> leaf] ELSE kept[i]]

\* name.replace(/\//g, '.'), as the pieces between the dots of the result; no
\* segment of a variable name of the builders holds a dot
RefPath(name) == name

\* the keys of Spacing that start with '-'
StartsWithMinus(key) == key \in {"-1", "-1-2", "-1-4"}

\* lines 814-869: the leaf of one Base variable, if it gets one
BaseVariableLeaf(tree, v) ==
    LET parts == v.name
        root == parts[1]
        modeValue == v.valuesByMode[1]
    IN  CASE root = "Colors" /\ modeValue.type \in {"RGB", "RGBA", "DEFAULT"} ->
                 SetLeaf(tree, parts,
                         [scopes |-> <<"ALL_SCOPES">>, type |-> "color",
                          value |-> ColorString(modeValue)])
          [] root = "Typography" /\ Len(parts) = 3 ->
                 SetLeaf(tree, parts,
                         [scopes |-> IF parts[3] = "Font"
                                     THEN <<"TEXT_CONTENT", "FONT_FAMILY">>
                                     ELSE <<"FONT_STYLE">>,
                          type |-> "string", value |-> JsonOf(modeValue)])
          [] root = "Spacing" ->
                 SetLeaf(tree, <<"Spacing", parts[2]>>,
                         [scopes |-> IF StartsWithMinus(parts[2]) THEN <<"ALL_SCOPES">>
                                     ELSE <<"WIDTH_HEIGHT", "GAP">>,
                          type |-> "number", value |-> JsonOf(modeValue)])
          [] root = "Corners" ->
                 SetLeaf(tree, <<"Corners", parts[2]>>,
                         [scopes |-> <<"ALL_SCOPES">>, type |-> "number",
                          value |-> JsonOf(modeValue)])
          [] OTHER -> tree

\* the loop of lines 814-870 over baseVariables, the lo-th to the hi-th in
\* order: the first half of them, then the second (TLC evaluates the first
\* half's object for the test of its length, which keeps its stack shallow)
RECURSIVE ExportBase(_, _, _, _, _)
ExportBase(S, tree, ids, lo, hi) ==
    IF lo > hi THEN tree
    ELSE IF lo = hi THEN BaseVariableLeaf(tree, S.vars[ids[lo]])
    ELSE LET firstHalf == ExportBase(S, tree, ids, lo, (lo + hi) \div 2)
         IN  IF Len(firstHalf) = 0 THEN ExportBase(S, <<>>, ids, (lo + hi) \div 2 + 1, hi)
             ELSE ExportBase(S, firstHalf, ids, (lo + hi) \div 2 + 1, hi)

\* a Theme leaf that refers to the Theme variable itself
ThemeLeafOwnName(S, tree, tv, themeModeId) ==
    LET val == tv.valuesByMode[themeModeId]
    IN  IF ~IsAlias(val) THEN tree
        ELSE SetLeaf(tree, tv.name,
                     [libraryName |-> "", collectionName |-> "Base",
                      value |-> JRef(RefPath(tv.name))])

\* lines 881-896: the leaf of one Theme variable in one mode
ThemeLeaf(S, tree, tv, themeModeId) ==
    LET val == tv.valuesByMode[themeModeId]
    IN  IF ~IsAlias(val) THEN tree
        ELSE SetLeaf(tree, tv.name,
                     [libraryName |-> "", collectionName |-> "Base",
                      value |-> JRef(RefPath(S.vars[val.id].name))])

\* the loop of lines 881-897 over themeVars, the lo-th to the hi-th in order
RECURSIVE ExportThemeMode(_, _, _, _, _, _)
ExportThemeMode(S, tree, ids, themeModeId, lo, hi) ==
    IF lo > hi THEN tree
    ELSE IF lo = hi THEN ThemeLeaf(S, tree, S.vars[ids[lo]], themeModeId)
    ELSE LET firstHalf == ExportThemeMode(S, tree, ids, themeModeId, lo, (lo + hi) \div 2)
         IN  IF Len(firstHalf) = 0
             THEN ExportThemeMode(S, <<>>, ids, themeModeId, (lo + hi) \div 2 + 1, hi)
             ELSE ExportThemeMode(S, firstHalf, ids, themeModeId, (lo + hi) \div 2 + 1, hi)

\* lines 875-899: exportData.Theme.modes, one bucket per mode in mode order
ExportTheme(S, c) ==
    [m \in 1..Len(S.colls[c].modes) |->
        [name |-> S.colls[c].modes[m],
         bucket |-> ExportThemeMode(S, <<>>, S.colls[c].variableIds, m, 1,
                                   Len(S.colls[c].variableIds))]]

\* bv.name.includes('/Padding')
IncludesPadding(name) == \E i \in 2..Len(name) : name[i] = "Padding"

\* lines 908-987: the leaf of one Bridge variable
BridgeLeaf(S, tree, bv) ==
    LET val == bv.valuesByMode[1]
        sizes == <<"WIDTH_HEIGHT", "GAP">>
    IN  IF IncludesPadding(bv.name)
        THEN CASE val.type = "FLOAT" ->
                      SetLeaf(tree, bv.name,
                              [scopes |-> sizes, type |-> "number", value |-> JNum(val.num)])
               [] IsAlias(val) ->
                      SetLeaf(tree, bv.name,
                              [libraryName |-> "", collectionName |-> "Base",
                               value |-> JRef(RefPath(S.vars[val.id].name))])
               [] OTHER ->
                      SetLeaf(tree, bv.name,
                              [scopes |-> sizes, type |-> "number", value |-> JNum(0)])
        ELSE SetLeaf(tree, bv.name,
                     [scopes |-> <<"ALL_SCOPES">>, type |-> "boolean",
                      value |-> JBool(CASE val.type = "BOOLEAN" -> val.bool
                                        [] val.type = "FLOAT" -> val.num > 0
                                        [] IsAlias(val) -> TRUE
                                        [] val.type = "RGBA" -> val.a > 0
                                        [] OTHER -> TRUE)])

\* the loop of lines 908-988 over bridgeVars, from the i-th on
RECURSIVE ExportBridge(_, _, _, _)
ExportBridge(S, tree, ids, i) ==
    IF i > Len(ids) THEN tree
    ELSE ExportBridge(S, BridgeLeaf(S, tree, S.vars[ids[i]]), ids, i + 1)

\* exportData of lines 794-990 for the store S; a collection that does not
\* exist leaves its key out
ExportDataOf(S) ==
    LET base == FindCollection(S, "Base")
        theme == FindCollection(S, "Theme")
        bridge == FindCollection(S, "Bridge")
    IN  [keys |-> {"Base"} \cup (IF theme # 0 THEN {"Theme"} ELSE {})
                           \cup (IF bridge # 0 THEN {"Bridge"} ELSE {}),
         Base |-> ExportBase(S, <<>>, S.colls[base].variableIds, 1,
                             Len(S.colls[base].variableIds)),
         Theme |-> IF theme # 0 THEN ExportTheme(S, theme) ELSE <<>>,
         Bridge |-> IF bridge # 0
                    THEN ExportBridge(S, <<>>, S.colls[bridge].variableIds, 1)
                    ELSE <<>>]

\* an exportData that always has its three keys
ExportDataThreeKeys == [ExportDataOf(Begin) EXCEPT !.keys = {"Base", "Theme", "Bridge"}]

\* exportData of the document as exportThemeAsJson finds it
ExportData == ExportDataOf(Begin)

(***************************************************************************)
(* The other branches of figma.ui.onmessage (lines 1005-1013, 1067-1086).  *)
(***************************************************************************)
\* messages other than generate-theme delivered in one behaviour
MaxReplies == 1

\* what the branches other than generate-theme have sent and shown
Replies ==
    LET sent == {m \in BagToSet(posted) : m.type # "generation-complete"}
        shown == {n \in BagToSet(notes) : "export" \in DOMAIN n}
    IN  BagCardinality([m \in sent |-> posted[m]])
            + BagCardinality([n \in shown |-> notes[n]])

\* export-json as it would be if it rewrote the scopes it exports onto the
\* variables
ExportJsonWritesScopes ==
    /\ Replies < MaxReplies
    /\ IF FindCollection(Begin, "Base") = 0
       THEN /\ notes' = notes (+) SetToBag({[export |-> "No Base collection found",
                                             error |-> TRUE]})
            /\ UNCHANGED <<posted, vars>>
       ELSE /\ posted' = posted (+) SetToBag({[type |-> "export-data",
                                               jsonData |-> <<ExportData>>,
                                               filename |-> "theme-export.json"]})
            /\ vars' = [id \in DOMAIN vars |->
                           [vars[id] EXCEPT !.scopes = <<"ALL_SCOPES">>]]
            /\ UNCHANGED notes
    /\ UNCHANGED <<colls, fuse, available, runs, held, snap, cancelled>>

\* export-json (lines 1067-1069): exportThemeAsJson has no await of its own
ExportJson ==
    /\ Replies < MaxReplies
    /\ IF FindCollection(Begin, "Base") = 0
       THEN /\ notes' = notes (+) SetToBag({[export |-> "No Base collection found",
                                             error |-> TRUE]})
            /\ UNCHANGED posted
       ELSE /\ posted' = posted (+) SetToBag({[type |-> "export-data",
                                               jsonData |-> <<ExportData>>,
                                               filename |-> "theme-export.json"]})
            /\ UNCHANGED notes
    /\ UNCHANGED <<store, available, runs, held, snap, cancelled>>

\* Object.keys(fontFamilies).sort()
FamilyRank(family) ==
    CASE family = "Inter" -> 1 [] family = "Roboto" -> 2 [] family = "Space Mono" -> 3

\* the comparator of lines 195-201: Regular first, then by localeCompare (no
\* style of the model is an italic)
StyleRank(style) ==
    CASE style = "Regular" -> 1 [] style = "Bold" -> 2 [] style = "SemiBold" -> 3

\* the families of a set, sorted
SortedFamilies(set) ==
    [i \in 1..Cardinality(set) |->
        CHOOSE x \in set :
            Cardinality({y \in set : FamilyRank(y) < FamilyRank(x)}) = i - 1]

\* the styles of a family, sorted
SortedStyles(set) ==
    [i \in 1..Cardinality(set) |->
        CHOOSE x \in set :
            Cardinality({y \in set : StyleRank(y) < StyleRank(x)}) = i - 1]

\* getAvailableFonts (lines 177-209): families in order, each with its styles
getAvailableFonts(fonts) ==
    LET families == SortedFamilies({f.family : f \in fonts})
    IN  [i \in 1..Len(families) |->
            [family |-> families[i],
             styles |-> SortedStyles({f.style : f \in {g \in fonts :
                                                           g.family = families[i]}})]]

\* load-fonts (lines 1005-1013); listAvailableFontsAsync may reject, and the
\* catch of line 205 then gives no families
LoadFonts(listed) ==
    /\ Replies < MaxReplies
    /\ posted' = posted (+) SetToBag({[type |-> "fonts-loaded",
                                       fonts |-> IF listed THEN getAvailableFonts(available)
                                                 ELSE <<>>]})
    /\ UNCHANGED <<store, available, runs, notes, held, snap, cancelled>>

\* Math.round of a component of Hct.fromInt(argbFromHex(hex)), kept symbolically
RoundedHct(hex, component) == [round |-> component, of |-> HexLit(hex)]

\* get-hct-info (lines 1071-1086): argbFromHex throws on a hex it cannot
\* parse, and the handler ends with nothing sent
GetHctInfo(hex) ==
    /\ Replies < MaxReplies
    /\ ValidHex(hex)
    /\ posted' = posted (+) SetToBag({[type |-> "hct-info", hex |-> hex,
                                       hct |-> [hue |-> RoundedHct(hex, "hue"),
                                                chroma |-> RoundedHct(hex, "chroma"),
                                                tone |-> RoundedHct(hex, "tone")]]})
    /\ UNCHANGED <<store, available, runs, notes, held, snap, cancelled>>

\* a message no branch of lines 1004-1087 names, cancel among them: the
\* handler falls through every if and returns
Cancel ==
    /\ ~cancelled
    /\ cancelled' = TRUE
    /\ UNCHANGED <<store, available, runs, posted, notes, held, snap>>

\* the requests and the hex strings the UI sends in these behaviours
RequestsUI == {ReqA, ReqB, ReqBadFailure}
HexesUI == {"#3366CC", "#12345"}
FontEnvsUI == {AllFonts, {[family |-> "Inter", style |-> "Bold"]}}

InitUI ==
    /\ colls = <<>>
    /\ vars = <<>>
    /\ fuse = -1
    /\ available \in FontEnvsUI
    /\ runs = <<>>
    /\ posted = EmptyBag
    /\ notes = EmptyBag
    /\ held = 0
    /\ snap = NoSnap
    /\ cancelled = FALSE

\* the UI sends one generate-theme at a time; its other messages come at any time
NextUI ==
    \/ \E req \in RequestsUI : Idle /\ GenerateTheme(req)
    \/ \E r \in 1..Len(runs) : FontsSettled(r)
    \/ \E r \in 1..Len(runs) : Theme(r)
    \/ \E r \in 1..Len(runs) : Bridge(r)
    \/ \E r \in 1..Len(runs) : Succeed(r)
    \/ \E r \in 1..Len(runs) : Catch(r)
    \/ \E r \in 1..Len(runs) : Return(r)
    \/ ExportJson
    \/ \E listed \in BOOLEAN : LoadFonts(listed)
    \/ \E hex \in HexesUI : GetHctInfo(hex)
    \/ Cancel

SpecUI == InitUI /\ [][NextUI]_allVars

\* no leaf stands at the end of the path
NoLeaf == [missing |-> TRUE]

\* the leaf a walk along path reaches in an exported object
LeafAt(tree, path) ==
    LET hits == {i \in 1..Len(tree) : tree[i].path = path}
    IN  IF hits = {} THEN NoLeaf ELSE tree[MinOf(hits)].leaf

\* the literal the store resolves for a variable in a mode, through every alias
RECURSIVE Literal(_, _)
Literal(id, modeId) ==
    LET values == vars[id].valuesByMode
        v == IF modeId <= Len(values) THEN values[modeId] ELSE values[1]
    IN  IF IsAlias(v) THEN Literal(v.id, modeId) ELSE v

\* a literal of the store as a $value writes it
Written(v) ==
    CASE v.type = "RGB" -> toHex(v.hex)
      [] v.type = "RGBA" -> IF v.a < 100 THEN toRgbaString(v.hex, v.a) ELSE toHex(v.hex)
      [] v.type = "FLOAT" -> JNum(v.num)
      [] v.type = "STRING" -> JStr(v.str)
      [] v.type = "BOOLEAN" -> JBool(v.bool)
      [] OTHER -> [fmt |-> "none"]

\* the leaf of variable id in bucket is a reference that, followed inside the
\* Base bucket of doc, reaches a leaf with the literal of the variable in the mode
RoundTrips(doc, bucket, id, modeId) ==
    LET leaf == LeafAt(bucket, vars[id].name)
    IN  /\ leaf # NoLeaf
        /\ leaf.value.fmt = "reference"
        /\ LeafAt(doc.Base, leaf.value.pieces) # NoLeaf
        /\ LeafAt(doc.Base, leaf.value.pieces).value = Written(Literal(id, modeId))

\* the variables of the collection named coll whose value in mode m is an alias
AliasVars(coll, m) ==
    IF FindCollection(Begin, coll) = 0 THEN {}
    ELSE {id \in ToSet(colls[FindCollection(Begin, coll)].variableIds) :
              m <= Len(vars[id].valuesByMode) /\ IsAlias(vars[id].valuesByMode[m])}

\* every Theme alias of every mode round-trips in doc
ThemeRoundTrips(doc) ==
    FindCollection(Begin, "Theme") # 0 =>
        /\ "Theme" \in doc.keys
        /\ \A m \in 1..Len(colls[FindCollection(Begin, "Theme")].modes) :
               /\ m <= Len(doc.Theme)
               /\ doc.Theme[m].name = colls[FindCollection(Begin, "Theme")].modes[m]
               /\ \A id \in AliasVars("Theme", m) :
                      RoundTrips(doc, doc.Theme[m].bucket, id, m)

\* the export-data messages the step posts
ExportedNow(msg) ==
    /\ msg.type = "export-data"
    /\ CopiesIn(msg, posted') > CopiesIn(msg, posted)

\* C19 as stated: in the document an export-json step posts, every Theme alias
\* of every mode and every Bridge alias is exported as a reference that,
\* followed inside Base, reaches the literal the store resolves for it.
C19_EveryAliasRoundTrips ==
    [][\A msg \in BagToSet(posted') :
           ExportedNow(msg) =>
               /\ ThemeRoundTrips(msg.jsonData[1])
               /\ \A id \in AliasVars("Bridge", 1) :
                      RoundTrips(msg.jsonData[1], msg.jsonData[1].Bridge, id, 1)]_allVars

\* C19: in the document an export-json step posts, every Theme alias of every
\* mode, and Bridge Modal/Padding when it is an alias, is exported as a
\* reference that, followed inside Base, reaches the literal the store resolves
\* for it; every other Bridge alias (Modal/Background, Header/Background) is
\* exported as the boolean leaf true.
C19_ThemeAndPaddingRoundTrip ==
    [][\A msg \in BagToSet(posted') :
           ExportedNow(msg) =>
               /\ ThemeRoundTrips(msg.jsonData[1])
               /\ \A id \in AliasVars("Bridge", 1) :
                      IF IncludesPadding(vars[id].name)
                      THEN RoundTrips(msg.jsonData[1], msg.jsonData[1].Bridge, id, 1)
                      ELSE LeafAt(msg.jsonData[1].Bridge, vars[id].name)
                               = [scopes |-> <<"ALL_SCOPES">>, type |-> "boolean",
                                  value |-> JBool(TRUE)]]_allVars

\* a document exported after a successful generation holds both Theme modes,
\* Modal/Padding as a reference and Modal/Background as a boolean
C19_Witness ==
    /\ \E r \in 1..Len(runs) : Succeeded(r)
    /\ \E msg \in BagToSet(posted) :
           /\ msg.type = "export-data"
           /\ msg.jsonData[1].keys = {"Base", "Theme", "Bridge"}
           /\ Len(msg.jsonData[1].Theme) = 2
           /\ LeafAt(msg.jsonData[1].Theme[2].bucket, <<"Brand">>) # NoLeaf
           /\ LeafAt(msg.jsonData[1].Bridge, <<"Modal", "Padding">>).value.fmt = "reference"
           /\ LeafAt(msg.jsonData[1].Bridge, <<"Modal", "Background">>).value = JBool(TRUE)

\* C20: once a cancel message has been delivered the plugin handles nothing
\* more: no step starts or advances a handler, writes to the store, posts a
\* message to the UI or shows a notification.
C20_CancelTerminates ==
    [][cancelled => /\ runs' = runs
                    /\ colls' = colls
                    /\ vars' = vars
                    /\ posted' = posted
                    /\ notes' = notes]_allVars

\* the value of Base variable `path`
BaseValue(path) == ValueAt("Base", path, 1)

\* the seed the handler generates the neutral palette of a request from
NeutralSeed(req) ==
    IF req.neutralHex # "" THEN [kind |-> "lit", str |-> req.neutralHex]
    ELSE [kind |-> "hsl", primary |-> req.hex, sat |-> 2]

\* the alpha percentages of the Alpha/<pct> tokens
alphaPcts == {10, 20, 30, 40, 50, 60, 70, 80, 90}

\* C21: after the latest successful run, Colors/Primary/Base and every
\* Colors/Primary/Alpha/<pct> hold the request's hex, Colors/Neutral/Base and
\* every Colors/Neutral/Alpha/<pct> hold the seed the neutral tones are samples
\* of (neutralHex, or the base computed from the primary); neither Base token
\* is the tone-50 sample of its palette.
C21_BaseTokensHoldTheSeeds ==
    \A r \in 1..Len(runs) :
        LatestSucceeded(r) =>
            LET primary == [kind |-> "lit", str |-> runs[r].req.hex]
                neutral == NeutralSeed(runs[r].req)
            IN  /\ BaseValue(<<"Colors", "Primary", "Base">>)
                       = [type |-> "RGB", hex |-> primary]
                /\ BaseValue(<<"Colors", "Neutral", "Base">>)
                       = [type |-> "RGB", hex |-> neutral]
                /\ \A pct \in alphaPcts :
                       /\ BaseValue(<<"Colors", "Primary", "Alpha", ToString(pct)>>)
                              = [type |-> "RGBA", hex |-> primary, a |-> pct]
                       /\ BaseValue(<<"Colors", "Neutral", "Alpha", ToString(pct)>>)
                              = [type |-> "RGBA", hex |-> neutral, a |-> pct]
                /\ \A t \in ToSet(neutralTones) :
                       BaseValue(<<"Colors", "Neutral", ToString(t)>>)
                           = [type |-> "RGB", hex |-> [kind |-> "tone", of |-> neutral,
                                                       tone |-> t]]
                /\ BaseValue(<<"Colors", "Primary", "Base">>)
                       # BaseValue(<<"Colors", "Primary", "50">>)
                /\ BaseValue(<<"Colors", "Neutral", "Base">>)
                       # BaseValue(<<"Colors", "Neutral", "50">>)

\* a second run with a neutral seed of the user succeeded after a first run
\* that computed its neutral base from another primary
C21_Witness ==
    /\ Len(runs) = 2
    /\ LatestSucceeded(2)
    /\ runs[2].req.neutralHex = "#808080"
    /\ runs[1].req.neutralHex = ""
    /\ runs[1].req.hex # runs[2].req.hex
    /\ Succeeded(1)

\* C22: after the latest successful run, each status slot without an override
\* holds in its tone tokens the samples of the palette of its fixed hue and
\* chroma and in Base that palette's tone 50; a slot with an override holds
\* the samples of the override's palette and in Base the override; whatever
\* the other slots' overrides are.
C22_StatusPaletteFallback ==
    \A r \in 1..Len(runs) :
        LatestSucceeded(r) =>
            \A i \in 1..Len(statusColors) :
                LET name == statusColors[i].name
                    override == StatusOverride(runs[r].req, name)
                    Sample(t) ==
                        IF override = ""
                        THEN [kind |-> "huechroma", hue |-> statusColors[i].hue,
                              chroma |-> statusColors[i].chroma, tone |-> t]
                        ELSE [kind |-> "tone", of |-> [kind |-> "lit", str |-> override],
                              tone |-> t]
                IN  /\ \A t \in ToSet(statusTones) :
                           BaseValue(<<"Colors", name, ToString(t)>>)
                               = [type |-> "RGB", hex |-> Sample(t)]
                    /\ BaseValue(<<"Colors", name, "Base">>)
                           = [type |-> "RGB",
                              hex |-> IF override = "" THEN Sample(50)
                                      ELSE [kind |-> "lit", str |-> override]]
                    /\ name = "Warning" /\ override = ""
                           => BaseValue(<<"Colors", "Warning", "Base">>)
                                  = [type |-> "RGB",
                                     hex |-> [kind |-> "huechroma", hue |-> 40,
                                              chroma |-> 70, tone |-> 50]]

\* a run without overrides succeeded after a run that overrode Warning alone
C22_Witness ==
    /\ Len(runs) = 2
    /\ Succeeded(1)
    /\ runs[1].req.warningHex = "#996600"
    /\ runs[1].req.successHex = ""
    /\ LatestSucceeded(2)
    /\ runs[2].req.warningHex = ""

\* the neutral seed and the neutral tones of Base are those of the primary's
\* hue and lightness at saturation sat
NeutralIsDesaturated(req, sat) ==
    LET seed == [kind |-> "hsl", primary |-> req.hex, sat |-> sat]
    IN  /\ BaseValue(<<"Colors", "Neutral", "Base">>) = [type |-> "RGB", hex |-> seed]
        /\ \A t \in ToSet(neutralTones) :
               BaseValue(<<"Colors", "Neutral", ToString(t)>>)
                   = [type |-> "RGB", hex |-> [kind |-> "tone", of |-> seed, tone |-> t]]

CollectionNames == {colls[c].name : c \in 1..Len(colls)}

\* C24: a step that handles export-json leaves the store as it is; without a
\* collection named Base it posts nothing and shows one error notification;
\* with one it shows nothing and posts exactly one export-data message, whose
\* document is a one-element array of an object with the key Base, the key
\* Theme exactly when a collection Theme exists, and the key Bridge exactly
\* when a collection Bridge exists.
C24_ExportNeedsBase ==
    [][ExportJson =>
          /\ colls' = colls /\ vars' = vars
          /\ IF "Base" \notin CollectionNames
             THEN /\ posted' = posted
                  /\ \E n \in BagToSet(notes') :
                         /\ n.error
                         /\ notes' = notes (+) SetToBag({n})
             ELSE /\ notes' = notes
                  /\ \E msg \in BagToSet(posted') :
                         /\ msg.type = "export-data"
                         /\ posted' = posted (+) SetToBag({msg})
                         /\ Len(msg.jsonData) = 1
                         /\ "Base" \in msg.jsonData[1].keys
                         /\ "Theme" \in msg.jsonData[1].keys <=> "Theme" \in CollectionNames
                         /\ "Bridge" \in msg.jsonData[1].keys
                                <=> "Bridge" \in CollectionNames]_allVars

\* export-json was handled before any generation: an error was shown, nothing
\* was posted, and there is no collection
C24_Witness ==
    /\ colls = <<>>
    /\ posted = EmptyBag
    /\ \E n \in BagToSet(notes) : "export" \in DOMAIN n /\ n.error

\* the user has removed no variable: every variable is listed by its collection
NothingRemoved ==
    \A id \in 1..Len(vars) : id \in ToSet(colls[vars[id].coll].variableIds)

\* C25: after the latest successful run the store holds, told without ids,
\* what the same request with the same font-load outcomes leaves in an empty
\* document: the same collections and modes and the same variables with the
\* same values in every mode, whatever the earlier runs wrote.
C25_HistoryIndependence ==
    \A r \in 1..Len(runs) :
        (LatestSucceeded(r) /\ NothingRemoved)
            => View(Begin) = View(createFigmaVariables(Fresh, runs[r].req))

\* the generation-complete messages posted for run r
Completions(r) == CopiesIn([type |-> "generation-complete", run |-> r], posted)

\* C26: a generate-theme handler that has returned has posted exactly one
\* generation-complete when its generation succeeded, and none when the
\* generation failed and the failure notification was shown.
C26_OneCompletionPerSuccess ==
    \A r \in 1..Len(runs) :
        runs[r].pc = "done" =>
            IF runs[r].err = "" THEN Completions(r) = 1
            ELSE /\ Completions(r) = 0
                 /\ CopiesIn([run |-> r, error |-> TRUE], notes) = 1

\* the runs that are between their first and their last store write
InFlight == {r \in 1..Len(runs) : runs[r].pc \in {"font", "theme", "bridge"}}

\* C27: a document that export-json posts while a run awaits its font loads or
\* has writes ahead of it is the export of the store as it was before the run
\* started or as it is once the run has finished.  (Stated for a run that no
\* failed run precedes: before it the store was empty, with nothing to export,
\* or as the latest successful generation left it.)
C27_ExportIsNeverMidRun ==
    [][\A msg \in BagToSet(posted') : \A r \in InFlight :
           (ExportedNow(msg) /\ \A q \in 1..(r - 1) : runs[q].err = "")
               => \/ msg.jsonData[1] = ExportDataOf(createFigmaVariables(Begin, runs[r].req))
                  \/ r > 1 /\ msg.jsonData[1] = ExportDataOf(Snap)]_allVars

\* the names of the Spacing variables createBaseCollection writes
spacingNames == {spacing[i].name : i \in 1..Len(spacing)}

\* the modal of run r is enabled and its padding size is `size`
ModalOf(r, size) ==
    /\ ("modalBackgroundEnabled" \in runs[r].req.absent \/ runs[r].req.modalBackgroundEnabled)
    /\ size = (IF "modalPaddingSize" \in runs[r].req.absent THEN "2"
               ELSE runs[r].req.modalPaddingSize)

BaseVars ==
    IF FindCollection(Begin, "Base") = 0 THEN {}
    ELSE ToSet(colls[FindCollection(Begin, "Base")].variableIds)

\* C29: in the document an export-json step posts, the leaf of every Base
\* variable carries as $scopes the scopes stored on the variable.
C29_ExportedScopesAreStoredScopes ==
    [][\A msg \in BagToSet(posted') :
           ExportedNow(msg) =>
               \A id \in BaseVars :
                   /\ LeafAt(msg.jsonData[1].Base, vars[id].name) # NoLeaf
                   /\ LeafAt(msg.jsonData[1].Base, vars[id].name).scopes
                          = vars[id].scopes]_allVars

\* a step in which the handler of export-json, load-fonts or get-hct-info
\* answers: it posts its reply, or notifies that there is nothing to export
Answered ==
    \/ \E msg \in BagToSet(posted') :
           /\ msg.type \in {"export-data", "fonts-loaded", "hct-info"}
           /\ CopiesIn(msg, posted') > CopiesIn(msg, posted)
    \/ \E note \in BagToSet(notes') :
           /\ "export" \in DOMAIN note
           /\ CopiesIn(note, notes') > CopiesIn(note, notes)

\* C30: handling export-json, get-hct-info or load-fonts leaves the
\* collections with their mode lists and the variables with their scopes and
\* per-mode values as they were, whether the handler succeeds or fails.
C30_RepliesLeaveTheStore ==
    [][Answered => (colls' = colls /\ vars' = vars)]_allVars

\* an export has been answered over a store a generation has filled
C30_Witness ==
    /\ \E msg \in BagToSet(posted) : msg.type = "export-data"
    /\ Len(vars) > 0
    /\ \E id \in DOMAIN vars : vars[id].scopes = <<"CORNER_RADIUS">>

====
